---- MODULE Spec2Model ----
(***************************************************************************)
(* QR Code (Version 1, level L, kanji mode) encoder of                     *)
(* rs_coding-compresser: the Go pipeline of src/main.go (kanji             *)
(* compression, bit-stream assembly, Reed-Solomon coding over GF(256))     *)
(* and the matrix builder of src/docs/main.js and its later revision       *)
(* (src/unnamed/part_000).                                                 *)
(*                                                                         *)
(* Conventions.  A Go slice s is the sequence with s[i] at index i+1.  A   *)
(* Go string of binary or hexadecimal digits is a sequence of one-         *)
(* character strings.  A character of the input is its Unicode code point. *)
(***************************************************************************)
EXTENDS Integers, Sequences, FiniteSets, TLC

VARIABLES
    \* --- one HTTP request handled by mainHandler / processKanjiHandler
    kanjiInput,     \* r.FormValue("kanjiInput"), a sequence of code points
    data,           \* the TemplateData the handler fills in
    calls,          \* the stages the handler has run, in order
    pc,             \* "received" | "rendered"
    \* --- the Reed-Solomon stage applied to a 19-byte block
    rsData,         \* the data block
    rsRemainder,    \* polyDiv(polyLeftShift(rsData, 7), getGeneratorPolynomial(7))
    rsPc,           \* "input" | "done"
    \* --- the loop body of compressKanjiString applied to one 16-bit code
    sjisCode,       \* the two bytes of the code
    sjisOut,        \* the record or the error the body produces
    sjisPc,         \* "input" | "done"
    \* --- getQrDataPositions, one inner-loop iteration at a time
    rev,            \* "docs" (src/docs/main.js) | "part000" (src/unnamed/part_000)
    matrix,         \* the 21 x 21 grid, matrix[r][c] for r, c in 0..20
    positions,      \* the positions pushed so far
    number,         \* the next sequence number
    direction,      \* -1 (upward) | 1 (downward)
    pairCol,        \* c of the outer loop
    rOffset,        \* r_offset
    colOffset,      \* col_offset
    posPc,          \* "start" | "static" | "scan" | "done"
    \* --- gfMul applied to two field elements
    gfA, gfB,       \* the operands
    gfProduct,      \* gfMul(gfA, gfB)
    gfPc,           \* "input" | "done"
    \* --- the stages the page calls one by one: applyEcc, applyMask
    stageInput,     \* the text of the form field
    stageOut,       \* the JSON the stage returns, parsed
    stageOut2,      \* the mask stage applied to the output of the mask stage
    stagePc,        \* "input" | "done" | "twice"
    \* --- renderStep4 / renderStep5 of the page
    step4Data,      \* the record renderStep4 is given
    step5Input,     \* the string renderStep5 is given
    qrMatrix,       \* generateFinalQrMatrix(step5Input)
    blackDataModules, \* the list renderStep5 shows
    renderPc,       \* "ready" | "shown" | "hidden"
    \* --- the HTTP server process: package-level variables and requests in flight
    pkgTmpl,        \* var tmpl: "nil" | "index.html"
    pkgExpTable,    \* var expTable [256]int
    pkgLogTable,    \* var logTable [256]int
    serverPc,       \* "start" | "main" | "serving"
    requests,       \* per request: what its goroutine holds
    \* --- the page of src/docs/index.html driven by src/docs/main.js
    wasm,           \* initWasm: "loading", "ready" or "failed"
    display,        \* the display value of each element the controller touches
    sectionPass,    \* the submission whose result each result section holds
    pass,           \* the number of form submissions so far
    lastRender      \* the last render function run and whether it got an error

httpVars == <<kanjiInput, data, calls, pc>>
rsVars == <<rsData, rsRemainder, rsPc>>
sjisVars == <<sjisCode, sjisOut, sjisPc>>
posVars == <<rev, matrix, positions, number, direction, pairCol, rOffset, colOffset, posPc>>
gfVars == <<gfA, gfB, gfProduct, gfPc>>
stageVars == <<stageInput, stageOut, stageOut2, stagePc>>
renderVars == <<step4Data, step5Input, qrMatrix, blackDataModules, renderPc>>
serverVars == <<pkgTmpl, pkgExpTable, pkgLogTable, serverPc, requests>>
pageVars == <<wasm, display, sectionPass, pass, lastRender>>
vars == <<httpVars, rsVars, sjisVars, posVars, gfVars, stageVars, renderVars, serverVars,
          pageVars>>

-----------------------------------------------------------------------------
(* Integer helpers with the widths of the Go code.                         *)

RECURSIVE bitXor(_, _)
\* a ^ b on non-negative ints
bitXor(a, b) ==
    IF a = 0 THEN b
    ELSE IF b = 0 THEN a
    ELSE ((a + b) % 2) + 2 * bitXor(a \div 2, b \div 2)

\* a & m on non-negative ints, m = 2^k - 1 shifted: only the uses of the code
bitAnd100(x) == ((x \div 256) % 2) * 256      \* x & 0x100

U16(x) == x % 65536                          \* uint16 arithmetic wraps
U8(x) == x % 256                             \* byte(v)

RECURSIVE BinDigits(_)
\* the binary digits of n, most significant first, no leading zeros ("0" for 0)
BinDigits(n) ==
    IF n < 2 THEN <<IF n = 1 THEN "1" ELSE "0">>
    ELSE Append(BinDigits(n \div 2), IF n % 2 = 1 THEN "1" ELSE "0")

Repeat(ch, k) == [i \in 1..k |-> ch]         \* strings.Repeat(ch, k)

\* fmt.Sprintf("%0<width>b", n): zero-padded to width, longer when n needs more
SprintfBin(n, width) ==
    LET d == BinDigits(n)
    IN IF Len(d) >= width THEN d ELSE Repeat("0", width - Len(d)) \o d

HexDigit(v) == SubSeq(<<"0","1","2","3","4","5","6","7","8","9","A","B","C","D","E","F">>, v + 1, v + 1)

RECURSIVE HexDigits(_)
HexDigits(n) == IF n < 16 THEN HexDigit(n) ELSE HexDigits(n \div 16) \o HexDigit(n % 16)

\* fmt.Sprintf("%0<width>X", n)
SprintfHex(n, width) ==
    LET d == HexDigits(n)
    IN IF Len(d) >= width THEN d ELSE Repeat("0", width - Len(d)) \o d

RECURSIVE ParseBin(_)
\* strconv.ParseUint(s, 2, 8) on a string of binary digits
ParseBin(s) ==
    IF s = <<>> THEN 0
    ELSE 2 * ParseBin(SubSeq(s, 1, Len(s) - 1)) + (IF s[Len(s)] = "1" THEN 1 ELSE 0)

RECURSIVE JoinSp(_)
\* strings.Join(parts, " ")
JoinSp(parts) ==
    IF parts = <<>> THEN <<>>
    ELSE IF Len(parts) = 1 THEN parts[1]
    ELSE parts[1] \o <<" ">> \o JoinSp(Tail(parts))

-----------------------------------------------------------------------------
(* GF(2^8): src/main.go, initGF and gfMul.                                 *)

primitivePolynomial == \h11D

generatorPolyExponents == <<87, 229, 146, 149, 238, 102, 21>>

\* one iteration of the loop of initGF, on the state (x, expTable, logTable)
initGFStep(i, st) ==
    LET x2 == 2 * st.x
    IN [x |-> IF bitAnd100(x2) # 0 THEN bitXor(x2, primitivePolynomial) ELSE x2,
        exp |-> [st.exp EXCEPT ![i] = st.x],
        log |-> [st.log EXCEPT ![st.x] = i]]

RECURSIVE initGFLoop(_, _, _)
\* the iterations i..stop-1 of the loop, in order: those below the middle,
\* then the others.  x is never 0: the test on it has the first half
\* evaluated before the second starts, which keeps the evaluation shallow
initGFLoop(i, stop, st) ==
    IF i >= stop THEN st
    ELSE IF stop - i = 1 THEN initGFStep(i, st)
    ELSE LET mid == (i + stop) \div 2
             half == initGFLoop(i, mid, st)
         IN IF half.x = 0 THEN half ELSE initGFLoop(mid, stop, half)

\* the tables without the final assignment expTable[255] = 1
initGFNoWrap ==
    LET t == initGFLoop(0, 255, [x |-> 1, exp |-> [i \in 0..255 |-> 0],
                                 log |-> [i \in 0..255 |-> 0]])
    IN [exp |-> t.exp, log |-> t.log]

\* the tables after initGF; Go zero-initialises both arrays
initGF ==
    LET t == initGFLoop(0, 255, [x |-> 1, exp |-> [i \in 0..255 |-> 0],
                                 log |-> [i \in 0..255 |-> 0]])
    IN [exp |-> [t.exp EXCEPT ![255] = 1], log |-> t.log]

expTable == initGF.exp
logTable == initGF.log

\* gfMul without the test for a zero factor
gfMulNoZeroTest(a, b) == expTable[(logTable[a] + logTable[b]) % 255]

gfMul(a, b) ==
    IF a = 0 \/ b = 0 THEN 0
    ELSE expTable[(logTable[a] + logTable[b]) % 255]

-----------------------------------------------------------------------------
(* Polynomials over GF(2^8): coefficient of x^i at index i+1.              *)

Max(a, b) == IF a > b THEN a ELSE b

polyAdd(p1, p2) ==
    [i \in 1..Max(Len(p1), Len(p2)) |->
        bitXor(IF i <= Len(p1) THEN p1[i] ELSE 0, IF i <= Len(p2) THEN p2[i] ELSE 0)]

\* make([]int, len(p)+count), then copy(result[count:], p)
polyLeftShift(p, count) == [i \in 1..count |-> 0] \o p

\* the exponents taken from the constant term upward: coeffs[i] = expTable[exp]
getGeneratorPolynomialAscending(degree) ==
    [k \in 1..(degree + 1) |->
        IF k = degree + 1 THEN 1
        ELSE IF k <= Len(generatorPolyExponents)
             THEN expTable[generatorPolyExponents[k]]
             ELSE 0]

getGeneratorPolynomial(degree) ==
    [k \in 1..(degree + 1) |->
        IF k = degree + 1 THEN 1
        ELSE IF degree - k + 1 <= Len(generatorPolyExponents)
             THEN expTable[generatorPolyExponents[degree - k + 1]]
             ELSE 0]

\* the term polyDiv of src/main.go XORs into result[i-j]
polyDivTerm(coeff, d) ==
    gfMul(expTable[(logTable[coeff] - logTable[d] + 255) % 255], d)

RECURSIVE polyDivInner(_, _, _, _, _)
\* the inner loop (j) of polyDiv for the Go index i, coeff = result[i]
polyDivInner(result, divisor, i, coeff, j) ==
    IF j >= Len(divisor) THEN result
    ELSE polyDivInner(
            [result EXCEPT ![i - j + 1] =
                bitXor(@, polyDivTerm(coeff, divisor[Len(divisor) - j]))],
            divisor, i, coeff, j + 1)

RECURSIVE polyDivOuter(_, _, _)
\* the outer loop of polyDiv from the Go index i downward
polyDivOuter(result, divisor, i) ==
    IF i < Len(divisor) - 1 THEN result
    ELSE IF result[i + 1] = 0 THEN polyDivOuter(result, divisor, i - 1)
    ELSE polyDivOuter(polyDivInner(result, divisor, i, result[i + 1], 0), divisor, i - 1)

\* result is a copy of dividend (make, copy); the remainder is result[:len(divisor)-1]
polyDiv(dividend, divisor) ==
    LET result == dividend \o <<>>
    IN SubSeq(polyDivOuter(result, divisor, Len(result) - 1), 1, Len(divisor) - 1)

RECURSIVE polyDivDocsInner(_, _, _, _, _)
\* the inner loop (j) of polyDiv of src/docs/index.html for the Go index i
polyDivDocsInner(result, divisor, i, coeff, j) ==
    IF j >= Len(divisor) THEN result
    ELSE polyDivDocsInner(
            [result EXCEPT ![i + j + 1] =
                bitXor(@, gfMul(divisor[j + 1], expTable[logTable[coeff]]))],
            divisor, i, coeff, j + 1)

RECURSIVE polyDivDocsOuter(_, _, _)
\* its outer loop from the Go index i downward, coeff = result[i+len(divisor)-1]
polyDivDocsOuter(result, divisor, i) ==
    IF i < 0 THEN result
    ELSE IF result[i + Len(divisor)] = 0 THEN polyDivDocsOuter(result, divisor, i - 1)
    ELSE polyDivDocsOuter(
            polyDivDocsInner(result, divisor, i, result[i + Len(divisor)], 0),
            divisor, i - 1)

\* polyDiv of the Go source embedded in src/docs/index.html
polyDivDocs(dividend, divisor) ==
    LET result == dividend \o <<>>
    IN SubSeq(polyDivDocsOuter(result, divisor, Len(result) - Len(divisor)),
              1, Len(divisor) - 1)

-----------------------------------------------------------------------------
(* Kanji compression: src/main.go, compressKanjiString.                    *)

maxCharCount == 9

\* golang.org/x/text/encoding/japanese.ShiftJIS on the sample characters:
\* a rune maps to two bytes (JIS X 0208), to one byte (ASCII, half-width
\* katakana) or to nothing (the encoder returns an error)
ShiftJISTable ==
    { <<\h3000,  <<\h81, \h40>> >>,     \* ideographic space
      <<\h4E9C,  <<\h88, \h9F>> >>,     \* U+4E9C
      <<\h70B9,  <<\h93, \h5F>> >>,     \* U+70B9
      <<\h8317,  <<\hE4, \hAA>> >>,     \* U+8317
      <<\h41,    <<\h41>> >>,           \* LATIN CAPITAL LETTER A
      <<\hFF71,  <<\hB1>> >>,           \* HALFWIDTH KATAKANA LETTER A
      <<\h1F600, <<>> >> }              \* not in Shift-JIS

Runes == { e[1] : e \in ShiftJISTable }

EncodeRune(r) == (CHOOSE e \in ShiftJISTable : e[1] = r)[2]

RECURSIVE EncodeRunes(_)
EncodeRunes(s) == IF s = <<>> THEN <<>> ELSE EncodeRune(Head(s)) \o EncodeRunes(Tail(s))

\* encoder.Bytes: the bytes, or an error when a rune has no encoding
convertToShiftJIS(s) ==
    IF \E i \in 1..Len(s) : EncodeRune(s[i]) = <<>>
    THEN [bytes |-> <<>>, err |-> TRUE]
    ELSE [bytes |-> EncodeRunes(s), err |-> FALSE]

NoError == [kind |-> "none"]

InRange1(code) == code >= \h8140 /\ code <= \h9FFC
InRange2(code) == code >= \hE040 /\ code <= \hEBBF

\* the two bytes put back together: the multiplier 0x100 in place of 0xC0
compressedValueUncompressed(subtractedCode) ==
    LET upperByte == (subtractedCode \div 256) % 256
        lowerByte == subtractedCode % 256
    IN U16(U16(upperByte * \h100) + lowerByte)

\* uint16(upperByte)*0xC0 + lowerByte of the subtracted code, in uint16
\* the compressed value with the multiplier 0xBC
compressedValueTimesBC(subtractedCode) ==
    LET upperByte == (subtractedCode \div 256) % 256
        lowerByte == subtractedCode % 256
    IN U16(U16(upperByte * \hBC) + lowerByte)

compressedValue(subtractedCode) ==
    LET upperByte == (subtractedCode \div 256) % 256
        lowerByte == subtractedCode % 256
    IN U16(U16(upperByte * \hC0) + lowerByte)

\* the body of the loop of compressKanjiString for one 16-bit code
compressCode(currentKanji, shiftJISCode) ==
    IF InRange1(shiftJISCode) \/ InRange2(shiftJISCode)
    THEN LET off == IF InRange1(shiftJISCode) THEN \h8140 ELSE \hC140
             subtractedCode == U16(shiftJISCode - off)
             cv == compressedValue(subtractedCode)
         IN [err |-> NoError,
             result |-> [Kanji |-> currentKanji,
                         ShiftJISCode |-> SprintfHex(shiftJISCode, 4),
                         SubtractedCode |-> SprintfHex(shiftJISCode, 4)
                                            \o <<" ", "-", " ">> \o SprintfHex(off, 4)
                                            \o <<" ", "=", " ">> \o SprintfHex(subtractedCode, 4),
                         CompressedHex |-> SprintfHex(cv, 4),
                         Binary13Bit |-> SprintfBin(cv, 13)]]
    ELSE [err |-> [kind |-> "unsupportedRange", kanji |-> currentKanji, code |-> shiftJISCode],
          result |-> <<>>]

\* uint16(b1)<<8 | uint16(b2)
shiftJISCodeOf(b1, b2) == U16(b1 * 256) + b2

RECURSIVE compressLoop(_, _, _, _)
\* the loop of compressKanjiString from byte index i (Go index) on
compressLoop(bytes, runes, i, results) ==
    IF i >= Len(bytes) \/ i + 1 >= Len(bytes)
    THEN [results |-> results, err |-> NoError]
    ELSE LET shiftJISCode == shiftJISCodeOf(bytes[i + 1], bytes[i + 2])
             one == compressCode(runes[Len(results) + 1], shiftJISCode)
         IN IF one.err # NoError
            THEN [results |-> <<>>, err |-> one.err]
            ELSE compressLoop(bytes, runes, i + 2, Append(results, one.result))

compressKanjiString(input) ==
    LET sj == convertToShiftJIS(input)
    IN IF sj.err
       THEN [results |-> <<>>, err |-> [kind |-> "shiftJISConversion"]]
       ELSE compressLoop(sj.bytes, input, 0, <<>>)

-----------------------------------------------------------------------------
(* Helper functions of src/main.go.                                        *)

bitStreamToBytes(s) ==
    [k \in 1..((Len(s) + 7) \div 8) |-> U8(ParseBin(SubSeq(s, 8 * k - 7, 8 * k)))]

formatBytesToHex(bytes) == JoinSp([k \in 1..Len(bytes) |-> SprintfHex(bytes[k], 2)])

formatBytesToBinary(bytes) == JoinSp([k \in 1..Len(bytes) |-> SprintfBin(bytes[k], 8)])

bytesToInts(b) == [k \in 1..Len(b) |-> b[k]]

intsToBytes(p) == [k \in 1..Len(p) |-> U8(p[k])]

RECURSIVE DecDigits(_)
\* fmt.Sprintf("%d", n), n >= 0
DecDigits(n) ==
    IF n < 10 THEN HexDigit(n) ELSE DecDigits(n \div 10) \o HexDigit(n % 10)

\* what formatPolynomial writes for the term of degree i (Go index)
formatTerm(coeff, i, varName, isFirstTerm) ==
    (IF isFirstTerm THEN <<>> ELSE <<" ", "+", " ">>)
    \o (IF coeff > 1
        THEN <<"\\", "a", "l", "p", "h", "a", "^", "{">> \o DecDigits(logTable[coeff]) \o <<"}">>
        ELSE <<>>)
    \o (IF i > 0
        THEN <<varName>> \o (IF i > 1 THEN <<"^", "{">> \o DecDigits(i) \o <<"}">> ELSE <<>>)
        ELSE IF coeff = 1 THEN <<"1">> ELSE <<>>)

RECURSIVE formatPolynomialLoop(_, _, _, _, _)
formatPolynomialLoop(p, varName, i, b, isFirstTerm) ==
    IF i < 0 THEN (IF isFirstTerm THEN <<"0">> ELSE b)
    ELSE IF p[i + 1] = 0 THEN formatPolynomialLoop(p, varName, i - 1, b, isFirstTerm)
    ELSE formatPolynomialLoop(p, varName, i - 1,
                              b \o formatTerm(p[i + 1], i, varName, isFirstTerm), FALSE)

formatPolynomial(p, varName) == formatPolynomialLoop(p, varName, Len(p) - 1, <<>>, TRUE)

-----------------------------------------------------------------------------
(* The request handler: src/main.go, mainHandler and processKanjiHandler.  *)

EmptyIntermediate ==
    [ModeIndicator |-> <<>>, CharCountIndicator |-> <<>>, ConcatenatedBinary |-> <<>>,
     TerminatedBinary |-> <<>>, PaddedBinaryBlocks |-> <<>>, PaddedHex |-> <<>>,
     DataPolynomial |-> <<>>, ErrorCorrectionPolynomial |-> <<>>,
     CodewordPolynomial |-> <<>>, CodewordHex |-> <<>>, CodewordBinary |-> <<>>]

\* TemplateData{MaxCharCount: maxCharCount}
NewTemplateData ==
    [KanjiInput |-> <<>>, Results |-> <<>>, Intermediate |-> EmptyIntermediate,
     Error |-> NoError, MaxCharCount |-> maxCharCount]

\* the two length checks of processKanjiHandler
emptyInput(n) == n = 0

\* the bound of the second check off by one
tooManyCharsOffByOne(n) == n > maxCharCount + 1

tooManyChars(n) == n > maxCharCount

RECURSIVE concatBinary13(_)
\* binaryBuilder after the loop over results
concatBinary13(results) ==
    IF results = <<>> THEN <<>>
    ELSE Head(results).Binary13Bit \o concatBinary13(Tail(results))

\* STEP 1-4: zero bits up to the next multiple of 8
padToByte(stream) ==
    IF Len(stream) % 8 # 0 THEN stream \o Repeat("0", 8 - (Len(stream) % 8)) ELSE stream

\* the 8-character blocks of the padded stream
splitBlocks(stream) ==
    [k \in 1..((Len(stream) + 7) \div 8) |-> SubSeq(stream, 8 * k - 7, 8 * k)]

\* the pad codeword the handler appends to dataBytes of length n
padCodeword(n) == IF n % 2 = 1 THEN \hEC ELSE \h11

\* "if" in place of "for": at most one pad codeword is appended
addPadCodewordsOnce(dataBytes) ==
    IF Len(dataBytes) < 19
    THEN Append(dataBytes, padCodeword(Len(dataBytes)))
    ELSE dataBytes

RECURSIVE addPadCodewords(_)
\* STEP 1-5: the loop "for len(dataBytes) < 19"
addPadCodewords(dataBytes) ==
    IF Len(dataBytes) < 19
    THEN addPadCodewords(Append(dataBytes, padCodeword(Len(dataBytes))))
    ELSE dataBytes

\* STEP 1-6 and 1-7 on the 19 data bytes
rsEncode(dataBytes) ==
    LET dataPoly == bytesToInts(dataBytes)
        generatorPoly == getGeneratorPolynomial(7)
        remainderPoly == polyDiv(polyLeftShift(dataPoly, 7), generatorPoly)
        codewordPoly == polyAdd(polyLeftShift(dataPoly, 7), remainderPoly)
    IN [dataPoly |-> dataPoly, remainderPoly |-> remainderPoly,
        codewordPoly |-> codewordPoly, codewordBytes |-> intsToBytes(codewordPoly)]

encodeCalls ==
    <<"compressKanjiString", "bitStreamToBytes", "formatBytesToHex", "bytesToInts",
      "getGeneratorPolynomial", "polyLeftShift", "polyDiv", "polyLeftShift", "polyAdd",
      "intsToBytes", "formatPolynomial", "formatPolynomial", "formatPolynomial",
      "formatBytesToHex", "formatBytesToBinary">>

\* processKanjiHandler on the form value: the TemplateData and the calls made
processKanjiHandler(input) ==
    LET d0 == [NewTemplateData EXCEPT !.KanjiInput = input]
        n == Len(input)
    IN IF emptyInput(n)
       THEN [data |-> [d0 EXCEPT !.Error = [kind |-> "emptyInput"]], calls |-> <<>>]
       ELSE IF tooManyChars(n)
       THEN [data |-> [d0 EXCEPT !.Error = [kind |-> "tooManyChars"]], calls |-> <<>>]
       ELSE LET c == compressKanjiString(input)
            IN IF c.err # NoError
               THEN [data |-> [d0 EXCEPT !.Error = [kind |-> "compress", cause |-> c.err]],
                     calls |-> <<"compressKanjiString">>]
               ELSE LET concatenated == concatBinary13(c.results)
                        modeIndicator == <<"1", "0", "0", "0">>
                        charCountIndicator == SprintfBin(n, 8)
                        initialBitStream == modeIndicator \o charCountIndicator \o concatenated
                        terminatedBitStream == initialBitStream \o <<"0", "0", "0", "0">>
                        paddedStream == padToByte(terminatedBitStream)
                        dataBytes == addPadCodewords(bitStreamToBytes(paddedStream))
                        rs == rsEncode(dataBytes)
                    IN [data |-> [d0 EXCEPT
                            !.Results = c.results,
                            !.Intermediate =
                                [ModeIndicator |-> modeIndicator,
                                 CharCountIndicator |-> charCountIndicator,
                                 ConcatenatedBinary |-> concatenated,
                                 TerminatedBinary |-> terminatedBitStream,
                                 PaddedBinaryBlocks |-> JoinSp(splitBlocks(paddedStream)),
                                 PaddedHex |-> formatBytesToHex(dataBytes),
                                 DataPolynomial |-> formatPolynomial(rs.dataPoly, "d"),
                                 ErrorCorrectionPolynomial |-> formatPolynomial(rs.remainderPoly, "r"),
                                 CodewordPolynomial |-> formatPolynomial(rs.codewordPoly, "c"),
                                 CodewordHex |-> formatBytesToHex(rs.codewordBytes),
                                 CodewordBinary |-> formatBytesToBinary(rs.codewordBytes)]],
                        calls |-> encodeCalls]

-----------------------------------------------------------------------------
(* The matrix builder: src/docs/main.js ("docs") and the later revision in *)
(* src/unnamed/part_000 ("part000").                                       *)

qrSize == 21
Null == -1                       \* the unset cell, null in the JavaScript
Cells == 0..(qrSize - 1)

emptyMatrix == [r \in Cells |-> [c \in Cells |-> Null]]

\* the condition of placeFinder with a 5 x 5 core
finderBlackWideCore(r, c) ==
    /\ r >= 0 /\ r < 7 /\ c >= 0 /\ c < 7
    /\ (r = 0 \/ r = 6 \/ c = 0 \/ c = 6 \/ (r >= 1 /\ r <= 5 /\ c >= 1 /\ c <= 5))

\* the condition under which placeFinder writes 1 at offset (r, c)
finderBlack(r, c) ==
    /\ r >= 0 /\ r < 7 /\ c >= 0 /\ c < 7
    /\ (r = 0 \/ r = 6 \/ c = 0 \/ c = 6 \/ (r > 1 /\ r < 5 /\ c > 1 /\ c < 5))

placeFinder(m, row, col) ==
    [r \in Cells |-> [c \in Cells |->
        IF r - row >= -1 /\ r - row <= 7 /\ c - col >= -1 /\ c - col <= 7
        THEN (IF finderBlack(r - row, c - col) THEN 1 ELSE 0)
        ELSE m[r][c]]]

\* the timing loop, i from 8 to qrSize - 9
placeTiming(m) ==
    [r \in Cells |-> [c \in Cells |->
        IF r = 6 /\ c >= 8 /\ c < qrSize - 8 THEN (IF c % 2 = 0 THEN 1 ELSE 0)
        ELSE IF c = 6 /\ r >= 8 /\ r < qrSize - 8 THEN (IF r % 2 = 0 THEN 1 ELSE 0)
        ELSE m[r][c]]]

placeStaticPatterns(m) ==
    LET f1 == placeFinder(m, 0, 0)
        f2 == placeFinder(f1, 0, qrSize - 7)
        f3 == placeFinder(f2, qrSize - 7, 0)
        t == placeTiming(f3)
    IN [r \in Cells |-> [c \in Cells |-> IF r = 13 /\ c = 8 THEN 1 ELSE t[r][c]]]

\* the first coordinate list of placeFormatInformation, per revision
formatPositions1(revision) ==
    IF revision = "docs"
    THEN << <<8,0>>, <<8,1>>, <<8,2>>, <<8,3>>, <<8,4>>, <<8,5>>, <<8,7>>,
            <<7,8>>, <<5,8>>, <<4,8>>, <<3,8>>, <<2,8>>, <<1,8>>, <<0,8>> >>
    ELSE << <<8,0>>, <<8,1>>, <<8,2>>, <<8,3>>, <<8,4>>, <<8,5>>, <<8,7>>, <<8,8>>,
            <<7,8>>, <<5,8>>, <<4,8>>, <<3,8>>, <<2,8>>, <<1,8>>, <<0,8>> >>

\* the second coordinate list, the same in both revisions
formatPositions2 ==
    << <<qrSize-1, 8>>, <<qrSize-2, 8>>, <<qrSize-3, 8>>, <<qrSize-4, 8>>,
       <<qrSize-5, 8>>, <<qrSize-6, 8>>, <<qrSize-7, 8>>,
       <<8, qrSize-8>>, <<8, qrSize-7>>, <<8, qrSize-6>>, <<8, qrSize-5>>,
       <<8, qrSize-4>>, <<8, qrSize-3>>, <<8, qrSize-2>>, <<8, qrSize-1>> >>

\* "101010000010010".split('').map(Number) of the docs revision
formatBitsMasked == <<1,0,1,0,1,0,0,0,0,0,1,0,0,1,0>>

\* generateFormatInformationBits(0, 3) of the part000 revision: the literal
generateFormatInformationBits == <<1,1,1,0,1,1,1,1,0,0,1,0,1,0,0>>

\* matrix[pos[0]][pos[1]] = bits[k] for the k-th coordinate, k = 1, 2, ...:
\* a cell listed more than once keeps the last value written
writeCells(m, coords, bits) ==
    [r \in Cells |-> [c \in Cells |->
        LET ks == {k \in 1..Len(coords) : coords[k] = <<r, c>>}
        IN IF ks = {} THEN m[r][c]
           ELSE bits[CHOOSE k \in ks : \A k2 \in ks : k2 <= k]]]

placeFormatInformation(revision, m, formatBits) ==
    IF revision = "docs"
    THEN writeCells(writeCells(m, formatPositions1("docs"), formatBits),
                    formatPositions2,
                    [i \in 1..15 |-> bitXor(formatBits[i], formatBitsMasked[i])])
    ELSE writeCells(writeCells(m, formatPositions1("part000"), generateFormatInformationBits),
                    formatPositions2, generateFormatInformationBits)

\* the row the scan visits at r_offset
scanRow(dir, r_offset) == IF dir = -1 THEN qrSize - 1 - r_offset ELSE r_offset

\* the scan nested the other way round: a whole column, then the next one
nextScanColumnFirst(revision, c, r_offset, col_offset, dir) ==
    LET c2 == IF c - 2 = 6 THEN 5 ELSE c - 2
    IN IF r_offset # qrSize - 1
       THEN [c |-> c, r |-> r_offset + 1, co |-> col_offset, dir |-> dir, done |-> FALSE]
       ELSE IF col_offset # 1
       THEN [c |-> c, r |-> 0, co |-> col_offset + 1, dir |-> dir, done |-> FALSE]
       ELSE [c |-> c2, r |-> 0, co |-> 0, dir |-> -dir, done |-> (c - 2 < 0)]

\* the scan moving one column left, not two, after a column pair
nextScanOneColumn(revision, c, r_offset, col_offset, dir) ==
    LET innerLast == IF revision = "docs" THEN col_offset = 1 ELSE r_offset = qrSize - 1
        outerLast == IF revision = "docs" THEN r_offset = qrSize - 1 ELSE col_offset = 1
        c2 == IF c - 1 = 6 THEN 5 ELSE c - 1
    IN IF ~innerLast
       THEN IF revision = "docs"
            THEN [c |-> c, r |-> r_offset, co |-> col_offset + 1, dir |-> dir, done |-> FALSE]
            ELSE [c |-> c, r |-> r_offset + 1, co |-> col_offset, dir |-> dir, done |-> FALSE]
       ELSE IF ~outerLast
       THEN IF revision = "docs"
            THEN [c |-> c, r |-> r_offset + 1, co |-> 0, dir |-> dir, done |-> FALSE]
            ELSE [c |-> c, r |-> 0, co |-> col_offset + 1, dir |-> dir, done |-> FALSE]
       ELSE [c |-> c2, r |-> 0, co |-> 0, dir |-> -dir, done |-> (c - 1 < 0)]

\* the loop counters after one inner iteration: docs nests col_offset inside
\* r_offset, part000 nests r_offset inside col_offset
nextScan(revision, c, r_offset, col_offset, dir) ==
    LET innerLast == IF revision = "docs" THEN col_offset = 1 ELSE r_offset = qrSize - 1
        outerLast == IF revision = "docs" THEN r_offset = qrSize - 1 ELSE col_offset = 1
        c2 == IF c - 2 = 6 THEN 5 ELSE c - 2
    IN IF ~innerLast
       THEN IF revision = "docs"
            THEN [c |-> c, r |-> r_offset, co |-> col_offset + 1, dir |-> dir, done |-> FALSE]
            ELSE [c |-> c, r |-> r_offset + 1, co |-> col_offset, dir |-> dir, done |-> FALSE]
       ELSE IF ~outerLast
       THEN IF revision = "docs"
            THEN [c |-> c, r |-> r_offset + 1, co |-> 0, dir |-> dir, done |-> FALSE]
            ELSE [c |-> c, r |-> 0, co |-> col_offset + 1, dir |-> dir, done |-> FALSE]
       ELSE [c |-> c2, r |-> 0, co |-> 0, dir |-> -dir, done |-> (c - 2 < 0)]

-----------------------------------------------------------------------------
(* The matrix stage of the page: renderStep4, renderStep5 and              *)
(* generateFinalQrMatrix of src/docs/main.js and src/unnamed/part_000.     *)

NaN == -2                        \* the cell parseInt leaves for a non-digit

\* parseInt(ch, 10) of one character
parseInt(ch) ==
    IF \E v \in 0..9 : HexDigit(v) = <<ch>>
    THEN CHOOSE v \in 0..9 : HexDigit(v) = <<ch>>
    ELSE NaN

\* "111011110001001".split('').map(Number) of generateFinalQrMatrix (docs)
formatInfo == <<1,1,1,0,1,1,1,1,0,0,0,1,0,0,1>>

\* the grid m as an array of arrays, every cell computed once
Grid(m) == [r \in Cells |-> [c \in Cells |-> m[r][c]] @@ <<>>] @@ <<>>

RECURSIVE fillData(_, _, _, _, _)
\* the loop of generateFinalQrMatrix over dataPositions[lo-1 .. hi-1] (by
\* halves): matrix[pos.r][pos.c] = parseInt(binaryString[i], 10)
fillData(m, dataPositions, binaryString, lo, hi) ==
    IF lo > hi THEN m
    ELSE IF lo = hi
    THEN [m EXCEPT ![dataPositions[lo].r][dataPositions[lo].c] = parseInt(binaryString[lo])]
    ELSE LET mid == (lo + hi) \div 2
             half == fillData(m, dataPositions, binaryString, lo, mid)
         IN IF DOMAIN half = {} THEN half
            ELSE fillData(half, dataPositions, binaryString, mid + 1, hi)

\* generateFinalQrMatrix, dataPositions being what getQrDataPositions()
\* returns: position i (from 0) is filled when i < binaryString.length
generateFinalQrMatrix(revision, dataPositions, binaryString) ==
    LET n == IF Len(dataPositions) < Len(binaryString)
             THEN Len(dataPositions) ELSE Len(binaryString)
    IN Grid(placeFormatInformation(
                revision,
                fillData(Grid(placeStaticPatterns(emptyMatrix)), dataPositions, binaryString, 1, n),
                formatInfo))

\* the cells in the order of the two loops of renderStep5
rowMajorCells == [k \in 1..(qrSize * qrSize) |-> <<(k - 1) \div qrSize, (k - 1) % qrSize>>]

\* dataPositions.find(p => p.r === r && p.c === c): the index, 0 for undefined
findPosition(dataPositions, r, c) ==
    LET ks == {i \in 1..Len(dataPositions) : dataPositions[i].r = r /\ dataPositions[i].c = c}
    IN IF ks = {} THEN 0 ELSE CHOOSE k \in ks : \A k2 \in ks : k <= k2

\* Array.prototype.sort((a, b) => a - b): ascending, equal elements in their
\* order
sortAscending(seq) ==
    LET n == Len(seq)
        place == [j \in 1..n |->
                     1 + Cardinality({k \in 1..n : seq[k] < seq[j] \/ (seq[k] = seq[j] /\ k < j)})]
                 \o <<>>
    IN [i \in 1..n |-> seq[CHOOSE j \in 1..n : place[j] = i]]

\* renderStep5: the matrix drawn and the list shown
renderStep5(revision, dataPositions, maskedBinaryString) ==
    LET m == generateFinalQrMatrix(revision, dataPositions, maskedBinaryString)
        IsBlackData(rc) == m[rc[1]][rc[2]] = 1 /\ findPosition(dataPositions, rc[1], rc[2]) # 0
        cells == SelectSeq(rowMajorCells, IsBlackData)
        pushed == [k \in 1..Len(cells) |->
                      dataPositions[findPosition(dataPositions, cells[k][1], cells[k][2])].num]
    IN [qrMatrix |-> m, blackDataModules |-> sortAscending(pushed)]

\* The characters of /\s/ that a string cannot spell are written by their
\* code points: one such name is one character of a string.
UnicodeSpaces ==
    {"U+000B", "U+00A0", "U+1680", "U+2000", "U+2001", "U+2002", "U+2003",
     "U+2004", "U+2005", "U+2006", "U+2007", "U+2008", "U+2009", "U+200A",
     "U+2028", "U+2029", "U+202F", "U+205F", "U+3000", "U+FEFF"}

\* /\s/: tab, line feed, vertical tab, form feed, carriage return, space,
\* no-break space, the byte order mark, the line and paragraph separators
\* and the space separators of Unicode
IsWhitespace(ch) == ch \in {" ", "\n", "\t", "\r", "\f"} \cup UnicodeSpaces

NotWhitespace(ch) == ~IsWhitespace(ch)

\* the argument renderStep4 hands to renderStep5: MaskedCodewordBinary as it
\* is (docs), or with .replace(/\s/g, '') applied (part_000)
step5Argument(revision, maskedCodewordBinary) ==
    IF revision = "docs" THEN maskedCodewordBinary
    ELSE SelectSeq(maskedCodewordBinary, NotWhitespace)

\* one visit of a cell by getQrDataPositions on the matrix m: the push when
\* the cell is null, and the loop counters of the next visit
scanVisit(revision, m, st) ==
    LET r == scanRow(st.dir, st.r)
        current_col == st.c - st.co
        nx == nextScan(revision, st.c, st.r, st.co, st.dir)
    IN [c |-> nx.c, r |-> nx.r, co |-> nx.co, dir |-> nx.dir, done |-> nx.done,
        positions |-> IF m[r][current_col] = Null
                      THEN Append(st.positions,
                                  [num |-> Len(st.positions) + 1, r |-> r, c |-> current_col])
                      ELSE st.positions]

RECURSIVE scanVisits(_, _, _, _)
\* n visits in a row, the first half before the second
scanVisits(revision, m, st, n) ==
    IF n = 0 \/ st.done THEN st
    ELSE IF n = 1 THEN scanVisit(revision, m, st)
    ELSE LET half == scanVisits(revision, m, st, n \div 2)
         IN IF half.done THEN half ELSE scanVisits(revision, m, half, n - n \div 2)

\* getQrDataPositions() as a whole: every visit of the ten column pairs
getQrDataPositions(revision) ==
    LET m == Grid(placeFormatInformation(revision, placeStaticPatterns(emptyMatrix),
                                         [i \in 1..15 |-> 0]))
    IN scanVisits(revision, m,
                  [c |-> qrSize - 1, r |-> 0, co |-> 0, dir |-> -1, done |-> FALSE,
                   positions |-> <<>>],
                  2 * qrSize * qrSize).positions

-----------------------------------------------------------------------------
(* The requests, blocks and codes the specifications range over.           *)

MaxInputLen == 10                \* inputs of 0..MaxInputLen characters

\* the inputs: one character repeated, with at most one position replaced by
\* another character
Inputs ==
    { [i \in 1..n |-> b] : n \in 0..MaxInputLen, b \in Runes }
    \cup { [i \in 1..n |-> IF i = p THEN d ELSE b] :
              n \in 1..MaxInputLen, p \in 1..MaxInputLen, b \in Runes, d \in Runes }

\* 19-byte data blocks: one byte value everywhere or at one position only
RSBlocks ==
    { [i \in 1..19 |-> v] : v \in 0..255 }
    \cup { [i \in 1..19 |-> IF i = p THEN v ELSE 0] : p \in 1..19, v \in 1..255 }

Bytes == 0..255

MaxStringLen == 210              \* the strings of renderStep5: up to MaxStringLen characters

\* a string of len characters "0", the p-th one "1" (none when p = 0)
OneHot(len, p) == [i \in 1..len |-> IF i = p THEN "1" ELSE "0"]

\* the strings of binary digits: of length 0, 1 and MaxStringLen - 3 ..
\* MaxStringLen, all "1" or all "0" but at most one "1" at either end; of
\* length MaxStringLen, the "1" at any place
BitStrings ==
    LET lens == {0, 1} \cup ((MaxStringLen - 3)..MaxStringLen)
    IN { [i \in 1..len |-> "1"] : len \in lens }
       \cup { OneHot(len, p) : len \in lens, p \in {0, 1, 2, MaxStringLen - 3} }
       \cup { OneHot(len, len) : len \in lens }
       \cup { OneHot(MaxStringLen, p) : p \in 0..MaxStringLen }

\* 8-digit groups joined by the separator sep
JoinGroups(bits, sep) ==
    [i \in 1..(Len(bits) + (Len(bits) - 1) \div 8) |->
        IF i % 9 = 0 THEN sep ELSE bits[i - (i \div 9)]]

\* the records renderStep4 is given: 26 bytes of 8 digits with a space, a
\* newline, a form feed or a no-break space between the bytes, or an error
Step4Records ==
    { [Error |-> <<>>, MaskedCodewordBinary |-> JoinGroups(bits, " ")] :
          bits \in { [i \in 1..208 |-> "1"] } \cup { OneHot(208, p) : p \in 0..208 } }
    \cup { [Error |-> <<>>, MaskedCodewordBinary |-> JoinGroups(bits, "\n")] :
          bits \in { [i \in 1..208 |-> "1"] } \cup { OneHot(208, p) : p \in {0, 1, 8, 9, 208} } }
    \cup { [Error |-> <<>>, MaskedCodewordBinary |-> JoinGroups(bits, sep)] :
          sep \in {"\f", "U+00A0"},
          bits \in { [i \in 1..208 |-> "1"] } \cup { OneHot(208, p) : p \in {0, 9, 208} } }
    \cup { [Error |-> <<"e">>, MaskedCodewordBinary |-> <<>>] }

IdleHttp == kanjiInput = <<>> /\ data = NewTemplateData /\ calls = <<>> /\ pc = "idle"
IdleRs == rsData = <<>> /\ rsRemainder = <<>> /\ rsPc = "idle"
IdleSjis == sjisCode = <<>> /\ sjisOut = <<>> /\ sjisPc = "idle"
IdlePos ==
    /\ rev = "docs" /\ matrix = emptyMatrix /\ positions = <<>> /\ number = 1
    /\ direction = -1 /\ pairCol = qrSize - 1 /\ rOffset = 0 /\ colOffset = 0
    /\ posPc = "idle"
IdleGf == gfA = 0 /\ gfB = 0 /\ gfProduct = 0 /\ gfPc = "idle"
IdleStage == stageInput = <<>> /\ stageOut = <<>> /\ stageOut2 = <<>> /\ stagePc = "idle"
IdleRender ==
    /\ step4Data = <<>> /\ step5Input = <<>> /\ qrMatrix = <<>> /\ blackDataModules = <<>>
    /\ renderPc = "idle"
IdleRest == IdleGf /\ IdleStage /\ IdleRender
IdleServer ==
    /\ pkgTmpl = "nil" /\ pkgExpTable = <<>> /\ pkgLogTable = <<>> /\ serverPc = "idle"
    /\ requests = <<>>
IdlePage ==
    /\ wasm = "idle" /\ display = <<>> /\ sectionPass = <<>> /\ pass = 0
    /\ lastRender = <<>>
IdleLate == IdleServer /\ IdlePage

-----------------------------------------------------------------------------
(* Spec: one request served by mainHandler.                                *)

Init ==
    /\ kanjiInput \in Inputs
    /\ data = NewTemplateData
    /\ calls = <<>>
    /\ pc = "received"
    /\ IdleRs /\ IdleSjis /\ IdlePos /\ IdleRest
    /\ IdleLate

\* r.Method == http.MethodPost: processKanjiHandler, then the template
MainHandlerPost ==
    /\ pc = "received"
    /\ LET out == processKanjiHandler(kanjiInput)
       IN /\ data' = out.data
          /\ calls' = <<"processKanjiHandler">> \o out.calls
    /\ pc' = "rendered"
    /\ UNCHANGED <<kanjiInput, rsVars, sjisVars, posVars, gfVars, stageVars, renderVars,
                   serverVars, pageVars>>

\* any other method: the form alone is rendered
MainHandlerGet ==
    /\ pc = "received"
    /\ pc' = "rendered"
    /\ UNCHANGED <<kanjiInput, data, calls, rsVars, sjisVars, posVars, gfVars, stageVars,
                   renderVars, serverVars, pageVars>>

Next == MainHandlerPost \/ MainHandlerGet

Spec == Init /\ [][Next]_vars

-----------------------------------------------------------------------------
(* SpecRS: the Reed-Solomon stage on a 19-byte block.                      *)

InitRS ==
    /\ rsData \in RSBlocks
    /\ rsRemainder = <<>>
    /\ rsPc = "input"
    /\ IdleHttp /\ IdleSjis /\ IdlePos /\ IdleRest
    /\ IdleLate

RsRemainder ==
    /\ rsPc = "input"
    /\ rsRemainder' = polyDiv(polyLeftShift(bytesToInts(rsData), 7), getGeneratorPolynomial(7))
    /\ rsPc' = "done"
    /\ UNCHANGED <<rsData, httpVars, sjisVars, posVars, gfVars, stageVars, renderVars,
                   serverVars, pageVars>>

NextRS == RsRemainder

SpecRS == InitRS /\ [][NextRS]_vars

-----------------------------------------------------------------------------
(* SpecPolyDiv: both revisions of polyDiv on the same shifted block.       *)

\* the revision of src/docs/index.html on the block the other revision had
RsRemainderDocs ==
    /\ rsPc = "done"
    /\ stagePc = "idle"
    /\ stageInput' = polyLeftShift(bytesToInts(rsData), 7)
    /\ stageOut' = polyDivDocs(polyLeftShift(bytesToInts(rsData), 7), getGeneratorPolynomial(7))
    /\ stagePc' = "docsDone"
    /\ UNCHANGED <<stageOut2, httpVars, rsVars, sjisVars, posVars, gfVars, renderVars,
                   serverVars, pageVars>>

NextPolyDiv == RsRemainder \/ RsRemainderDocs

SpecPolyDiv == InitRS /\ [][NextPolyDiv]_vars

-----------------------------------------------------------------------------
(* SpecSjis: the loop body of compressKanjiString on one pair of bytes.    *)

InitSjis ==
    /\ sjisCode \in Bytes \X Bytes
    /\ sjisOut = <<>>
    /\ sjisPc = "input"
    /\ IdleHttp /\ IdleRs /\ IdlePos /\ IdleRest
    /\ IdleLate

\* the character is not known for an arbitrary pair of bytes: the code
\* stands for it in the Kanji field
CompressOne ==
    /\ sjisPc = "input"
    /\ LET code == shiftJISCodeOf(sjisCode[1], sjisCode[2])
       IN sjisOut' = compressCode(code, code)
    /\ sjisPc' = "done"
    /\ UNCHANGED <<sjisCode, httpVars, rsVars, posVars, gfVars, stageVars, renderVars,
                   serverVars, pageVars>>

NextSjis == CompressOne

SpecSjis == InitSjis /\ [][NextSjis]_vars

-----------------------------------------------------------------------------
(* SpecPos: getQrDataPositions, one inner-loop iteration per step.         *)

InitPos ==
    /\ rev \in {"docs", "part000"}
    /\ matrix = emptyMatrix
    /\ positions = <<>>
    /\ number = 1
    /\ direction = -1
    /\ pairCol = qrSize - 1
    /\ rOffset = 0
    /\ colOffset = 0
    /\ posPc = "start"
    /\ IdleHttp /\ IdleRs /\ IdleSjis /\ IdleGf /\ IdleStage /\ IdleRender
    /\ IdleLate

PosPlaceStatic ==
    /\ posPc = "start"
    /\ matrix' = placeStaticPatterns(matrix)
    /\ posPc' = "static"
    /\ UNCHANGED <<rev, positions, number, direction, pairCol, rOffset, colOffset,
                   httpVars, rsVars, sjisVars, gfVars, stageVars, renderVars,
                   serverVars, pageVars>>

\* placeFormatInformation(matrix, Array(15).fill(0))
PosPlaceFormat ==
    /\ posPc = "static"
    /\ matrix' = placeFormatInformation(rev, matrix, [i \in 1..15 |-> 0])
    /\ posPc' = "scan"
    /\ UNCHANGED <<rev, positions, number, direction, pairCol, rOffset, colOffset,
                   httpVars, rsVars, sjisVars, gfVars, stageVars, renderVars,
                   serverVars, pageVars>>

\* the scan pushing every cell it visits, reserved or not
PosScanCellEveryCell ==
    /\ posPc = "scan"
    /\ LET r == scanRow(direction, rOffset)
           current_col == pairCol - colOffset
           nx == nextScan(rev, pairCol, rOffset, colOffset, direction)
       IN /\ positions' = Append(positions, [num |-> number, r |-> r, c |-> current_col])
          /\ number' = number + 1
          /\ pairCol' = nx.c
          /\ rOffset' = nx.r
          /\ colOffset' = nx.co
          /\ direction' = nx.dir
          /\ posPc' = IF nx.done THEN "done" ELSE "scan"
    /\ UNCHANGED <<rev, matrix, httpVars, rsVars, sjisVars, gfVars, stageVars, renderVars,
                   serverVars, pageVars>>

\* one execution of "if (matrix[r][current_col] === null) positions.push(...)"
PosScanCell ==
    /\ posPc = "scan"
    /\ LET r == scanRow(direction, rOffset)
           current_col == pairCol - colOffset
           nx == nextScan(rev, pairCol, rOffset, colOffset, direction)
       IN /\ IF matrix[r][current_col] = Null
             THEN /\ positions' = Append(positions, [num |-> number, r |-> r, c |-> current_col])
                  /\ number' = number + 1
             ELSE UNCHANGED <<positions, number>>
          /\ pairCol' = nx.c
          /\ rOffset' = nx.r
          /\ colOffset' = nx.co
          /\ direction' = nx.dir
          /\ posPc' = IF nx.done THEN "done" ELSE "scan"
    /\ UNCHANGED <<rev, matrix, httpVars, rsVars, sjisVars, gfVars, stageVars, renderVars,
                   serverVars, pageVars>>

NextPos == PosPlaceStatic \/ PosPlaceFormat \/ PosScanCell

SpecPos == InitPos /\ [][NextPos]_vars

-----------------------------------------------------------------------------
(* SpecMatrix: the matrix stage, getQrDataPositions one iteration per      *)
(* step, then renderStep5 called with a string or through renderStep4.     *)

InitMatrix ==
    /\ rev \in {"docs", "part000"}
    /\ matrix = emptyMatrix
    /\ positions = <<>>
    /\ number = 1
    /\ direction = -1
    /\ pairCol = qrSize - 1
    /\ rOffset = 0
    /\ colOffset = 0
    /\ posPc = "start"
    /\ step4Data = <<>> /\ step5Input = <<>> /\ qrMatrix = <<>> /\ blackDataModules = <<>>
    /\ renderPc = "ready"
    /\ IdleHttp /\ IdleRs /\ IdleSjis /\ IdleGf /\ IdleStage
    /\ IdleLate

\* renderStep5(maskedBinaryString)
RenderStep5 ==
    /\ posPc = "done" /\ renderPc = "ready"
    /\ \E s \in BitStrings :
          LET out == renderStep5(rev, positions, s)
          IN /\ step5Input' = s
             /\ qrMatrix' = out.qrMatrix
             /\ blackDataModules' = out.blackDataModules
    /\ renderPc' = "shown"
    /\ UNCHANGED <<step4Data, posVars, httpVars, rsVars, sjisVars, gfVars, stageVars,
                   serverVars, pageVars>>

\* renderStep4(data): nothing is drawn on an error
RenderStep4 ==
    /\ posPc = "done" /\ renderPc = "ready"
    /\ \E d \in Step4Records :
          /\ step4Data' = d
          /\ IF d.Error # <<>>
             THEN /\ renderPc' = "hidden"
                  /\ UNCHANGED <<step5Input, qrMatrix, blackDataModules>>
             ELSE LET arg == step5Argument(rev, d.MaskedCodewordBinary)
                      out == renderStep5(rev, positions, arg)
                  IN /\ step5Input' = arg
                     /\ qrMatrix' = out.qrMatrix
                     /\ blackDataModules' = out.blackDataModules
                     /\ renderPc' = "shown"
    /\ UNCHANGED <<posVars, httpVars, rsVars, sjisVars, gfVars, stageVars, serverVars, pageVars>>

NextMatrix == PosPlaceStatic \/ PosPlaceFormat \/ PosScanCell \/ RenderStep5 \/ RenderStep4

SpecMatrix == InitMatrix /\ [][NextMatrix]_vars

-----------------------------------------------------------------------------
(* SpecGF: gfMul on the tables init has built.                             *)

InitGF ==
    /\ gfA \in Bytes
    /\ gfB \in Bytes
    /\ gfProduct = 0
    /\ gfPc = "input"
    /\ IdleHttp /\ IdleRs /\ IdleSjis /\ IdlePos /\ IdleStage /\ IdleRender
    /\ IdleLate

GfMul ==
    /\ gfPc = "input"
    /\ gfProduct' = gfMul(gfA, gfB)
    /\ gfPc' = "done"
    /\ UNCHANGED <<gfA, gfB, httpVars, rsVars, sjisVars, posVars, stageVars, renderVars,
                   serverVars, pageVars>>

NextGF == GfMul

SpecGF == InitGF /\ [][NextGF]_vars

-----------------------------------------------------------------------------
(* SpecMask: the mask stage behind window.applyMask, called by the         *)
(* maskForm of src/docs/main.js, applied once and then to its own output.  *)

\* the fixed 26-byte mask constant
MaskPattern ==
    <<\h99, \h99, \h99, \h66, \h66, \h66, \h99, \h99, \h99, \h66, \h66, \h66, \h99,
      \h99, \h99, \h96, \h66, \h99, \h96, \h66, \h66, \h66, \h99, \h99, \h66, \h99>>

WrongLength == [kind |-> "wrongLength"]

\* the mask stage adding the mask constant byte-wise instead of XORing it
applyMaskAdding(codewordBinary) ==
    LET digits == SelectSeq(codewordBinary, NotWhitespace)
        codeword == bitStreamToBytes(digits)
    IN IF Len(digits) % 8 # 0 \/ Len(codeword) # 26
       THEN [Error |-> WrongLength, MaskedCodeword |-> <<>>, MaskPattern |-> <<>>]
       ELSE [Error |-> NoError,
             MaskedCodeword |-> [k \in 1..26 |-> U8(codeword[k] + MaskPattern[k])],
             MaskPattern |-> MaskPattern]

\* applyMask on a string of binary digits with optional whitespace: the
\* whitespace is stripped, the digits are decoded to bytes, 26 bytes are
\* XORed byte-wise with the mask constant
applyMask(codewordBinary) ==
    LET digits == SelectSeq(codewordBinary, NotWhitespace)
        codeword == bitStreamToBytes(digits)
    IN IF Len(digits) % 8 # 0 \/ Len(codeword) # 26
       THEN [Error |-> WrongLength, MaskedCodeword |-> <<>>, MaskPattern |-> <<>>]
       ELSE [Error |-> NoError,
             MaskedCodeword |-> [k \in 1..26 |-> bitXor(codeword[k], MaskPattern[k])],
             MaskPattern |-> MaskPattern]

\* the byte vectors typed into the form: one byte value everywhere, or one
\* byte set, in 26 bytes; one byte value in 25 and 27 bytes
MaskCodewords ==
    { [i \in 1..26 |-> v] : v \in Bytes }
    \cup { [i \in 1..26 |-> IF i = p THEN \hFF ELSE 0] : p \in 1..26 }
    \cup { [i \in 1..n |-> v] : n \in {25, 27}, v \in {0, \h5A} }

\* as binary digits: bytes separated by spaces, by newlines, or not at all
MaskInputs ==
    { formatBytesToBinary(b) : b \in MaskCodewords }
    \cup { JoinGroups(SelectSeq(formatBytesToBinary(b), NotWhitespace), "\n") :
              b \in { [i \in 1..26 |-> v] : v \in {0, \h5A, \hFF} } }
    \cup { SelectSeq(formatBytesToBinary(b), NotWhitespace) :
              b \in { [i \in 1..26 |-> v] : v \in {0, \h5A, \hFF} } }

InitMask ==
    /\ stageInput \in MaskInputs
    /\ stageOut = <<>>
    /\ stageOut2 = <<>>
    /\ stagePc = "maskInput"
    /\ IdleHttp /\ IdleRs /\ IdleSjis /\ IdlePos /\ IdleGf /\ IdleRender
    /\ IdleLate

\* the maskForm is submitted with the typed string
ApplyMask ==
    /\ stagePc = "maskInput"
    /\ stageOut' = applyMask(stageInput)
    /\ stagePc' = "masked"
    /\ UNCHANGED <<stageInput, stageOut2, httpVars, rsVars, sjisVars, posVars, gfVars,
                   renderVars, serverVars, pageVars>>

\* the masked codeword, shown as binary digits, is submitted again
ApplyMaskAgain ==
    /\ stagePc = "masked"
    /\ stageOut.Error = NoError
    /\ stageOut2' = applyMask(formatBytesToBinary(stageOut.MaskedCodeword))
    /\ stagePc' = "remasked"
    /\ UNCHANGED <<stageInput, stageOut, httpVars, rsVars, sjisVars, posVars, gfVars,
                   renderVars, serverVars, pageVars>>

NextMask == ApplyMask \/ ApplyMaskAgain

SpecMask == InitMask /\ [][NextMask]_vars

-----------------------------------------------------------------------------
(* SpecServer: the HTTP server of src/main.go.  init and main run first;   *)
(* net/http then runs mainHandler on one goroutine per request, and the    *)
(* steps of the requests interleave.                                       *)

NumRequests == 2                 \* requests in flight at the same time

\* the requests: a GET, and POSTs with no, one and two characters
ServerRequests ==
    { [method |-> "GET", input |-> <<>>] }
    \cup { [method |-> "POST", input |-> i] : i \in { <<>>, <<\h4E9C>>, <<\h70B9, \h8317>> } }

IdleRequest ==
    [method |-> "", input |-> <<>>, pc |-> "idle", data |-> <<>>, read |-> <<>>,
     response |-> <<>>]

\* the package-level variables a function of src/main.go assigns, had
\* processKanjiHandler rebuilt the tables on each request
assignsToRebuilding(fn) ==
    IF fn = "init" THEN {"tmpl"}
    ELSE IF fn \in {"initGF", "processKanjiHandler"} THEN {"expTable", "logTable"}
    ELSE {}

\* the package-level variables a function of src/main.go assigns: tmpl in
\* init, the two tables in initGF, none in any other function
assignsTo(fn) ==
    IF fn = "init" THEN {"tmpl"}
    ELSE IF fn = "initGF" THEN {"expTable", "logTable"}
    ELSE {}

\* the package-level variables the functions of a call sequence assign
assigned(fns) == UNION { assignsTo(fns[k]) : k \in 1..Len(fns) }

\* var expTable [256]int before initGF
zeroTable == [i \in 0..255 |-> 0]

\* the values a variable can hold after a step: its value, or for a
\* variable the step assigns, also the array under construction
valuesAfter(name, value, fns) ==
    IF name \in assigned(fns) THEN {value, zeroTable} ELSE {value}

\* the TemplateData processKanjiHandler leaves when it reads the tables exp
\* and log: the pipeline is computed on the tables initGF builds; a result
\* over any other tables is marked as one that differs
processKanjiHandlerReading(input, exp, log) ==
    LET out == processKanjiHandler(input)
    IN IF exp = initGF.exp /\ log = initGF.log
       THEN out.data
       ELSE IF \E k \in 1..Len(out.calls) : out.calls[k] = "polyDiv"
       THEN [out.data EXCEPT !.Error = [kind |-> "otherTables"]]
       ELSE out.data

InitServer ==
    /\ pkgTmpl = "nil"
    /\ pkgExpTable = zeroTable
    /\ pkgLogTable = zeroTable
    /\ serverPc = "start"
    /\ requests = [i \in 1..NumRequests |-> IdleRequest]
    /\ IdleHttp /\ IdleRs /\ IdleSjis /\ IdlePos /\ IdleRest /\ IdlePage

\* func init(): template.Must(ParseFiles), initGF()
GoInit ==
    /\ serverPc = "start"
    /\ pkgTmpl' = "index.html"
    /\ pkgExpTable' = initGF.exp
    /\ pkgLogTable' = initGF.log
    /\ serverPc' = "main"
    /\ UNCHANGED <<requests, httpVars, rsVars, sjisVars, posVars, gfVars, stageVars,
                   renderVars, pageVars>>

\* func main(): HandleFunc, ListenAndServe
GoMain ==
    /\ serverPc = "main"
    /\ serverPc' = "serving"
    /\ UNCHANGED <<pkgTmpl, pkgExpTable, pkgLogTable, requests, httpVars, rsVars, sjisVars,
                   posVars, gfVars, stageVars, renderVars, pageVars>>

\* mainHandler is entered for a request: data := TemplateData{...}
ServeRequest(i) ==
    /\ serverPc = "serving"
    /\ requests[i].pc = "idle"
    /\ \E r \in ServerRequests :
          requests' = [requests EXCEPT ![i] =
                          [method |-> r.method, input |-> r.input, pc |-> "handler",
                           data |-> NewTemplateData, read |-> <<>>, response |-> <<>>]]
    /\ \E e \in valuesAfter("expTable", pkgExpTable, <<"mainHandler">>),
          l \in valuesAfter("logTable", pkgLogTable, <<"mainHandler">>) :
          pkgExpTable' = e /\ pkgLogTable' = l
    /\ UNCHANGED <<pkgTmpl, serverPc, httpVars, rsVars, sjisVars, posVars, gfVars,
                   stageVars, renderVars, pageVars>>

\* processKanjiHandler on the request's goroutine, reading the tables
ProcessKanji(i) ==
    /\ requests[i].pc = "handler"
    /\ requests[i].method = "POST"
    /\ LET fns == <<"processKanjiHandler">> \o processKanjiHandler(requests[i].input).calls
       IN /\ requests' = [requests EXCEPT ![i] =
                 [@ EXCEPT !.pc = "processed",
                           !.read = [exp |-> pkgExpTable, log |-> pkgLogTable],
                           !.data = processKanjiHandlerReading(requests[i].input,
                                                               pkgExpTable, pkgLogTable)]]
          /\ \E e \in valuesAfter("expTable", pkgExpTable, fns),
                l \in valuesAfter("logTable", pkgLogTable, fns) :
                pkgExpTable' = e /\ pkgLogTable' = l
    /\ UNCHANGED <<pkgTmpl, serverPc, httpVars, rsVars, sjisVars, posVars, gfVars,
                   stageVars, renderVars, pageVars>>

\* renderTemplate: tmpl.ExecuteTemplate(w, "index.html", data)
RenderTemplate(i) ==
    /\ \/ requests[i].pc = "processed"
       \/ requests[i].pc = "handler" /\ requests[i].method # "POST"
    /\ requests' = [requests EXCEPT ![i] =
           [@ EXCEPT !.pc = "done",
                     !.response = [tmpl |-> pkgTmpl, data |-> requests[i].data]]]
    /\ \E e \in valuesAfter("expTable", pkgExpTable, <<"renderTemplate">>),
          l \in valuesAfter("logTable", pkgLogTable, <<"renderTemplate">>) :
          pkgExpTable' = e /\ pkgLogTable' = l
    /\ UNCHANGED <<pkgTmpl, serverPc, httpVars, rsVars, sjisVars, posVars, gfVars,
                   stageVars, renderVars, pageVars>>

NextServer ==
    \/ GoInit
    \/ GoMain
    \/ \E i \in 1..NumRequests : ServeRequest(i)
    \/ \E i \in 1..NumRequests : ProcessKanji(i)
    \/ \E i \in 1..NumRequests : RenderTemplate(i)

SpecServer == InitServer /\ [][NextServer]_vars

-----------------------------------------------------------------------------
(* Vocabulary of the properties.                                           *)

\* the handler ran on a POST and has rendered
Posted == pc = "rendered" /\ calls # <<>>

\* a successful encode
Encoded == Posted /\ data.Error = NoError

HexVal(ch) == CHOOSE v \in 0..15 : HexDigit(v) = <<ch>>

\* "XX XX ... XX": groups of two hexadecimal digits separated by one space
WellFormedHex(s) ==
    /\ Len(s) % 3 = 2
    /\ \A i \in 1..Len(s) :
          IF i % 3 = 0 THEN s[i] = " " ELSE \E v \in 0..15 : HexDigit(v) = <<s[i]>>

\* the bytes a well-formed hexadecimal display shows
ShownBytes(s) == [k \in 1..((Len(s) + 1) \div 3) |-> 16 * HexVal(s[3 * k - 2]) + HexVal(s[3 * k - 1])]

\* a string of 8-digit blocks separated by spaces, the spaces removed
ShownBits(s) == [i \in 1..(Len(s) - (Len(s) \div 9)) |-> s[i + ((i - 1) \div 8)]]

\* the value of a string of binary digits, most significant first
BitsValue(s) == ParseBin(s)

\* the generator polynomial, coefficient of x^i at index i+1
Generator == getGeneratorPolynomial(7)

RECURSIVE RefEliminate(_, _, _, _)
\* one elimination step of the reference long division: the term of degree i,
\* of coefficient q, is removed by subtracting q x (generator coefficient of
\* x^k) from the term of degree i - 7 + k, for k = 0..7
RefEliminate(res, i, q, k) ==
    IF k > 7 THEN res
    ELSE RefEliminate([res EXCEPT ![i - 7 + k + 1] = bitXor(@, gfMul(q, Generator[k + 1]))],
                      i, q, k + 1)

RECURSIVE RefDivide(_, _)
\* the reference division from the term of degree i downward
RefDivide(res, i) ==
    IF i < 7 THEN res
    ELSE IF res[i + 1] = 0 THEN RefDivide(res, i - 1)
    ELSE RefDivide(RefEliminate(res, i, res[i + 1], 0), i - 1)

\* the remainder of block(x) * x^7 by the generator
RefRemainder(block) ==
    SubSeq(RefDivide(<<0, 0, 0, 0, 0, 0, 0>> \o block, Len(block) + 6), 1, 7)

-----------------------------------------------------------------------------
(* SpecEcc: the error-correction stage behind window.applyEcc, called by   *)
(* the eccForm of src/docs/main.js with the string of its text area.  The  *)
(* stage itself is not among the sources; it is the Reed-Solomon encoder   *)
(* of spec.md 4.4.                                                         *)

\* the stage without its length check: the remainder is computed over
\* whatever block the digits decode to
applyEccUnchecked(dataCodewordsBinary) ==
    LET digits == SelectSeq(dataCodewordsBinary, NotWhitespace)
        dataBytes == bitStreamToBytes(digits)
        remainder == RefRemainder(dataBytes)
    IN [Error |-> NoError,
        RemainderPoly |-> remainder,
        CodewordBytes |-> dataBytes \o remainder]

\* applyEcc on a string of binary digits with optional whitespace: the
\* whitespace is stripped and the digits are decoded to bytes; a block that
\* is not 19 bytes long fails with "wrong length"; for 19 bytes the output
\* is the 19 data bytes followed by the 7 coefficients of the remainder of
\* data(x) * x^7 by the generator
applyEcc(dataCodewordsBinary) ==
    LET digits == SelectSeq(dataCodewordsBinary, NotWhitespace)
        dataBytes == bitStreamToBytes(digits)
        remainder == RefRemainder(dataBytes)
    IN IF Len(digits) % 8 # 0 \/ Len(dataBytes) # 19
       THEN [Error |-> WrongLength, RemainderPoly |-> <<>>, CodewordBytes |-> <<>>]
       ELSE [Error |-> NoError,
             RemainderPoly |-> remainder,
             CodewordBytes |-> dataBytes \o remainder]

\* the strings typed into the text area of the eccForm: blocks of 0, 1, 18,
\* 19 and 20 bytes of one byte value as binary digits separated by spaces,
\* some of them separated by newlines or not at all, and 19 bytes followed
\* by four more digits
EccInputs ==
    { formatBytesToBinary([i \in 1..n |-> v]) : n \in {0, 1, 18, 19, 20}, v \in Bytes }
    \cup { JoinGroups(SelectSeq(formatBytesToBinary([i \in 1..n |-> v]), NotWhitespace),
                      "\n") : n \in {18, 19, 20}, v \in {1, \h5A} }
    \cup { SelectSeq(formatBytesToBinary([i \in 1..n |-> v]), NotWhitespace) :
              n \in {18, 19, 20}, v \in {1, \h5A} }
    \cup { formatBytesToBinary([i \in 1..19 |-> v]) \o <<" ", "1", "0", "1", "0">> :
              v \in {1, \h5A} }

InitEcc ==
    /\ stageInput \in EccInputs
    /\ stageOut = <<>>
    /\ stageOut2 = <<>>
    /\ stagePc = "eccInput"
    /\ IdleHttp /\ IdleRs /\ IdleSjis /\ IdlePos /\ IdleGf /\ IdleRender
    /\ IdleLate

\* the eccForm is submitted with the typed string
ApplyEcc ==
    /\ stagePc = "eccInput"
    /\ stageOut' = applyEcc(stageInput)
    /\ stagePc' = "eccDone"
    /\ UNCHANGED <<stageInput, stageOut2, httpVars, rsVars, sjisVars, posVars, gfVars,
                   renderVars, serverVars, pageVars>>

NextEcc == ApplyEcc

SpecEcc == InitEcc /\ [][NextEcc]_vars

-----------------------------------------------------------------------------
(* C1..C10.                                                                *)

\* C1: for every 19-byte block, the 7 coefficients polyDiv returns for
\* polyLeftShift(data, 7) and the generator are the remainder of the
\* reference long division of data(x) * x^7 by the generator.
C1_PolyDivIsRemainder ==
    rsPc = "done" => rsRemainder = RefRemainder(rsData)

\* the block x^18: polyDiv returns x, the reference remainder is another
C1_Witness ==
    /\ rsPc = "done"
    /\ rsData = [i \in 1..19 |-> IF i = 19 THEN 1 ELSE 0]
    /\ rsRemainder = <<0, 1, 0, 0, 0, 0, 0>>
    /\ RefRemainder(rsData) = <<197, 96, 179, 32, 226, 61, 232>>

\* C2: on every successful encode the 26 bytes shown in CodewordHex and
\* CodewordBinary are the 19 data codewords, in order, followed by the 7
\* remainder bytes.
C2_DataThenRemainder ==
    Encoded =>
        LET d == ShownBytes(data.Intermediate.PaddedHex)
            cw == ShownBytes(data.Intermediate.CodewordHex)
            rem == polyDiv(polyLeftShift(d, 7), Generator)
        IN /\ Len(cw) = 26
           /\ SubSeq(cw, 1, 19) = d
           /\ SubSeq(cw, 20, 26) = rem
           /\ data.Intermediate.CodewordBinary = formatBytesToBinary(cw)

\* one supported character: the 7 remainder bytes come first, the 19 data
\* codewords after them
C2_Witness ==
    /\ Encoded
    /\ kanjiInput = <<\h4E9C>>
    /\ LET d == ShownBytes(data.Intermediate.PaddedHex)
           cw == ShownBytes(data.Intermediate.CodewordHex)
       IN /\ SubSeq(cw, 1, 7) = polyDiv(polyLeftShift(d, 7), Generator)
          /\ SubSeq(cw, 8, 26) = d
          /\ SubSeq(cw, 1, 19) # d

\* C3: every input of 1 to 9 characters encoded without error has exactly 19
\* data codewords and a codeword of exactly 26 bytes.
C3_Lengths ==
    (Encoded /\ Len(kanjiInput) >= 1 /\ Len(kanjiInput) <= 9) =>
        /\ WellFormedHex(data.Intermediate.PaddedHex)
        /\ Len(ShownBytes(data.Intermediate.PaddedHex)) = 19
        /\ WellFormedHex(data.Intermediate.CodewordHex)
        /\ Len(ShownBytes(data.Intermediate.CodewordHex)) = 26
        /\ Len(ShownBits(data.Intermediate.CodewordBinary)) = 26 * 8

C3_Witness ==
    /\ Encoded
    /\ Len(kanjiInput) = 9
    /\ Len(data.Results) = 9
    /\ Len(ShownBytes(data.Intermediate.CodewordHex)) = 26

\* C4: when the byte-grouped stream has fewer than 19 bytes, the pad bytes
\* appended are 0xEC, 0x11, 0xEC, ...: the first is 0xEC and they alternate up
\* to length 19.
C4_PadStartsWithEC ==
    Encoded =>
        LET d == ShownBytes(data.Intermediate.PaddedHex)
            nb == (Len(data.Intermediate.PaddedBinaryBlocks) + 1) \div 9
        IN /\ Len(d) = 19
           /\ \A k \in (nb + 1)..19 :
                 d[k] = IF (k - nb) % 2 = 1 THEN 236 ELSE 17

\* one supported character: 4 stream bytes, and the first pad byte is 0x11
C4_Witness ==
    /\ Encoded
    /\ kanjiInput = <<\h4E9C>>
    /\ Len(data.Intermediate.PaddedBinaryBlocks) = 4 * 9 - 1
    /\ LET d == ShownBytes(data.Intermediate.PaddedHex)
       IN d[5] = 17 /\ d[6] = 236 /\ d[19] = 17

\* a character whose encoding is a single byte, or a double-byte code outside
\* 0x8140-0x9FFC and 0xE040-0xEBBF
Offending(r) ==
    LET b == EncodeRune(r)
    IN \/ Len(b) = 1
       \/ /\ Len(b) = 2
          /\ ~(b[1] * 256 + b[2] >= 33088 /\ b[1] * 256 + b[2] <= 40956)
          /\ ~(b[1] * 256 + b[2] >= 57408 /\ b[1] * 256 + b[2] <= 60351)

\* C5: an input of 1 to 9 characters with an offending character, wherever
\* it stands, fails in compressKanjiString: an error for the first offending
\* character, no compression records, no later stage.
C5_OffendingCharacterFails ==
    (Posted /\ Len(kanjiInput) >= 1 /\ Len(kanjiInput) <= 9
            /\ \E i \in 1..Len(kanjiInput) : Offending(kanjiInput[i])) =>
        /\ data.Error # NoError
        /\ data.Error.kind = "compress"
        /\ data.Results = <<>>
        /\ data.Intermediate = EmptyIntermediate
        /\ calls = <<"processKanjiHandler", "compressKanjiString">>
        /\ (data.Error.cause.kind = "unsupportedRange" =>
               LET first == CHOOSE i \in 1..Len(kanjiInput) :
                               /\ Offending(kanjiInput[i])
                               /\ \A j \in 1..(i - 1) : ~Offending(kanjiInput[j])
               IN data.Error.cause.kanji = kanjiInput[first])

\* a supported character followed by a single-byte one: no error, one
\* record, and every later stage has run
C5_Witness ==
    /\ Posted
    /\ kanjiInput = <<\h4E9C, \h41>>
    /\ Offending(kanjiInput[2])
    /\ data.Error = NoError
    /\ Len(data.Results) = 1
    /\ calls = <<"processKanjiHandler">> \o encodeCalls
    /\ data.Intermediate.CodewordHex # <<>>

\* C6: the length is validated before compression: zero characters give the
\* empty-input error, more than 9 the too-many-characters error, and in both
\* cases compressKanjiString is not called and nothing is produced.
C6_LengthCheckedFirst ==
    (Posted /\ (Len(kanjiInput) = 0 \/ Len(kanjiInput) > 9)) =>
        /\ data.Error = [kind |-> IF Len(kanjiInput) = 0 THEN "emptyInput" ELSE "tooManyChars"]
        /\ calls = <<"processKanjiHandler">>
        /\ data.Results = <<>>
        /\ data.Intermediate = EmptyIntermediate

C6_Witness ==
    /\ Posted
    /\ Len(kanjiInput) = 10
    /\ \A i \in 1..10 : ~Offending(kanjiInput[i]) /\ EncodeRune(kanjiInput[i]) # <<>>
    /\ data.Error = [kind |-> "tooManyChars"]

\* every character of the input is a double-byte character of the two ranges
AllSupported ==
    \A i \in 1..Len(kanjiInput) :
        Len(EncodeRune(kanjiInput[i])) = 2 /\ ~Offending(kanjiInput[i])

\* the 13-bit field the compression rule gives a double-byte character
ExpectedField(r) ==
    LET b == EncodeRune(r)
        code == b[1] * 256 + b[2]
        sub == IF code <= 40956 THEN code - 33088 ELSE code - 49472
    IN SprintfBin((sub \div 256) * 192 + (sub % 256), 13)

\* C7: for a successfully compressed input of n characters the padded stream
\* is 1000, n in 8 bits, the 13-bit fields of the characters in input order,
\* the terminator 0000 and the fewest zero bits reaching a multiple of 8.
C7_PaddedStream ==
    (Encoded /\ Len(kanjiInput) >= 1 /\ Len(kanjiInput) <= 9) =>
        LET s == ShownBits(data.Intermediate.PaddedBinaryBlocks)
            n == Len(kanjiInput)
        IN /\ Len(s) = 8 * ((16 + 13 * n + 7) \div 8)
           /\ SubSeq(s, 1, 4) = <<"1", "0", "0", "0">>
           /\ Len(SubSeq(s, 5, 12)) = 8 /\ BitsValue(SubSeq(s, 5, 12)) = n
           /\ \A k \in 1..n :
                 /\ Len(EncodeRune(kanjiInput[k])) = 2
                 /\ SubSeq(s, 13 * k, 13 * k + 12) = ExpectedField(kanjiInput[k])
           /\ \A i \in (13 + 13 * n)..Len(s) : s[i] = "0"

\* a supported character followed by a single-byte one: the count says 2 and
\* the stream holds one 13-bit field
C7_Witness ==
    /\ Encoded
    /\ kanjiInput = <<\h4E9C, \h41>>
    /\ LET s == ShownBits(data.Intermediate.PaddedBinaryBlocks)
       IN /\ BitsValue(SubSeq(s, 5, 12)) = 2
          /\ Len(s) = 32
          /\ Len(data.Intermediate.ConcatenatedBinary) = 13

\* the layout of C7 on the inputs whose characters are all supported
C7_PaddedStreamOfSupported ==
    (Encoded /\ AllSupported) => C7_PaddedStream

\* C8: for every code the range check accepts, the compressed value is
\* u*0xC0 + l of the subtracted code, without 16-bit overflow, below 8192, and
\* rendered as exactly 13 binary digits.
C8_CompressedValue ==
    sjisPc = "done" =>
        LET code == sjisCode[1] * 256 + sjisCode[2]
            in1 == code >= 33088 /\ code <= 40956
            in2 == code >= 57408 /\ code <= 60351
            sub == IF in1 THEN code - 33088 ELSE code - 49472
            v == (sub \div 256) * 192 + (sub % 256)
        IN /\ (sjisOut.err = NoError) <=> (in1 \/ in2)
           /\ (in1 \/ in2) =>
                 /\ v < 65536
                 /\ v < 8192
                 /\ Len(sjisOut.result.Binary13Bit) = 13
                 /\ BitsValue(sjisOut.result.Binary13Bit) = v
                 /\ sjisOut.result.CompressedHex = SprintfHex(v, 4)

C8_Witness ==
    /\ sjisPc = "done"
    /\ sjisCode = <<235, 191>>
    /\ sjisOut.err = NoError
    /\ BitsValue(sjisOut.result.Binary13Bit) = 8191

\* C9: getQrDataPositions of src/docs/main.js returns exactly 208 positions:
\* 208 cells are left unset by static-pattern and format placement.
C9_Docs208Positions ==
    rev = "docs" =>
        /\ posPc = "scan" =>
              Cardinality({rc \in Cells \X Cells : matrix[rc[1]][rc[2]] = Null}) = 208
        /\ posPc = "done" => Len(positions) = 208

\* the docs revision ends with 209 positions, cell (8, 8) among them
C9_Witness ==
    /\ posPc = "done"
    /\ rev = "docs"
    /\ Len(positions) = 209
    /\ \E i \in 1..Len(positions) : positions[i].r = 8 /\ positions[i].c = 8

\* C10: in the sequence of getQrDataPositions no coordinate appears twice,
\* every coordinate lies in 0..20 x 0..20, and the sequence numbers are
\* 1, 2, 3, ... in visitation order.
C10_PositionsWellFormed ==
    /\ \A i \in 1..Len(positions) :
          /\ positions[i].num = i
          /\ positions[i].r >= 0 /\ positions[i].r <= 20
          /\ positions[i].c >= 0 /\ positions[i].c <= 20
    /\ \A i, j \in 1..Len(positions) :
          (positions[i].r = positions[j].r /\ positions[i].c = positions[j].c) => i = j

C10_Witness ==
    /\ posPc = "done"
    /\ rev = "part000"
    /\ Len(positions) = 208

-----------------------------------------------------------------------------
(* C11..C20.                                                               *)

\* the column pair of column c in the standard zigzag: 20/19 is pair 0,
\* 8/7 pair 6, 5/4 pair 7, 1/0 pair 9
ZigzagPair(c) == IF c > 6 THEN (20 - c) \div 2 ELSE 7 + ((5 - c) \div 2)

\* the place of cell (r, c), c # 6, in the standard zigzag: pairs right to
\* left, pair 0 upward and the direction flipping at every pair, the right
\* column before the left one at each row
ZigzagRank(r, c) ==
    LET p == ZigzagPair(c)
        isRight == IF c > 6 THEN c % 2 = 0 ELSE c % 2 = 1
        row == IF p % 2 = 0 THEN 20 - r ELSE r
    IN 42 * p + 2 * row + (IF isRight THEN 0 ELSE 1)

\* C11: getQrDataPositions of src/docs/main.js numbers the unreserved cells
\* in the standard zigzag order: never a cell of column 6, the numbers grow
\* with the zigzag place, and at the end every unset cell is numbered.
C11_DocsZigzagOrder ==
    rev = "docs" =>
        /\ \A i \in 1..Len(positions) :
              /\ positions[i].c # 6
              /\ matrix[positions[i].r][positions[i].c] = Null
        /\ \A i \in 1..(Len(positions) - 1) :
              ZigzagRank(positions[i].r, positions[i].c)
                  < ZigzagRank(positions[i + 1].r, positions[i + 1].c)
        /\ posPc = "done" =>
              \A r \in Cells, c \in Cells :
                  matrix[r][c] = Null =>
                      \E i \in 1..Len(positions) : positions[i].r = r /\ positions[i].c = c

C11_Witness ==
    /\ posPc = "done"
    /\ rev = "docs"
    /\ positions[1] = [num |-> 1, r |-> 20, c |-> 20]
    /\ positions[2] = [num |-> 2, r |-> 20, c |-> 19]
    /\ positions[3] = [num |-> 3, r |-> 19, c |-> 20]
    /\ positions[25] = [num |-> 25, r |-> 9, c |-> 18]
    /\ positions[26] = [num |-> 26, r |-> 9, c |-> 17]
    /\ positions[Len(positions)] = [num |-> Len(positions), r |-> 12, c |-> 0]

\* renderStep5 has drawn
Shown == posPc = "done" /\ renderPc = "shown"

\* every character of s is a binary digit
IsBitString(s) == \A i \in 1..Len(s) : s[i] \in {"0", "1"}

\* C12: in the matrix generateFinalQrMatrix of src/docs/main.js returns, the
\* 15-bit format constant is written twice: both coordinate lists have 15
\* coordinates, and the k-th coordinate of each holds bit k of the constant.
C12_FormatWrittenTwice ==
    (Shown /\ rev = "docs") =>
        LET list1 == formatPositions1("docs")
            list2 == formatPositions2
        IN /\ Len(list1) = 15
           /\ Len(list2) = 15
           /\ \A k \in 1..15 :
                 /\ k <= Len(list1) => qrMatrix[list1[k][1]][list1[k][2]] = formatInfo[k]
                 /\ k <= Len(list2) => qrMatrix[list2[k][1]][list2[k][2]] = formatInfo[k]

\* the first list has 14 coordinates, and the second copy holds the constant
\* XORed with 101010000010010: its first bit is 0, the constant's is 1
C12_Witness ==
    /\ Shown /\ rev = "docs"
    /\ step5Input = [i \in 1..208 |-> "1"]
    /\ Len(formatPositions1("docs")) = 14
    /\ formatInfo[1] = 1
    /\ qrMatrix[8][0] = 1
    /\ qrMatrix[20][8] = 0

\* C13: for every string of 208 binary digits, each of the 441 cells of the
\* matrix generateFinalQrMatrix of src/docs/main.js returns holds 0 or 1.
C13_NoUnsetCell ==
    (Shown /\ rev = "docs" /\ Len(step5Input) = 208 /\ IsBitString(step5Input)) =>
        \A r \in Cells, c \in Cells : qrMatrix[r][c] \in {0, 1}

\* 209 positions for 208 digits: the last position, cell (12, 0), stays unset
C13_Witness ==
    /\ Shown /\ rev = "docs"
    /\ step5Input = [i \in 1..208 |-> "1"]
    /\ Len(positions) = 209
    /\ positions[209].r = 12 /\ positions[209].c = 0
    /\ qrMatrix[12][0] = Null

\* the statement of C13 for the revision of src/unnamed/part_000
C13_NoUnsetCellPart000 ==
    (Shown /\ rev = "part000" /\ Len(step5Input) = 208 /\ IsBitString(step5Input)) =>
        \A r \in Cells, c \in Cells : qrMatrix[r][c] \in {0, 1}

\* the list is strictly ascending and holds k exactly when the k-th
\* character of the string exists and is "1"
BlackListOfOnes(list, str) ==
    /\ \A i \in 1..(Len(list) - 1) : list[i] < list[i + 1]
    /\ \A k \in 1..(Len(str) + 1) :
          (\E i \in 1..Len(list) : list[i] = k) <=> (k <= Len(str) /\ str[k] = "1")

\* C14: for every input string, the black-module list of renderStep5
\* (src/docs/main.js) is strictly ascending and contains k exactly when the
\* input has a k-th character and that character is "1".
C14_BlackModuleList ==
    (Shown /\ rev = "docs") => BlackListOfOnes(blackDataModules, step5Input)

\* through renderStep4 the string keeps its separators and has 233
\* characters: the 210th is "1" and 210 is not in the list
C14_Witness ==
    /\ Shown /\ rev = "docs"
    /\ step4Data # <<>>
    /\ Len(step5Input) = 233
    /\ step5Input[9] = " "
    /\ step5Input[210] = "1"
    /\ \A i \in 1..Len(blackDataModules) : blackDataModules[i] # 210

\* the statement of C14 on the strings of at most 208 binary digits, in both
\* revisions
C14_BlackModuleListOf208Digits ==
    (Shown /\ Len(step5Input) <= 208 /\ IsBitString(step5Input)) =>
        BlackListOfOnes(blackDataModules, step5Input)

\* C15: the matrix stage of src/docs/main.js strips whitespace: a masked
\* codeword rendered through renderStep4 with spaces or newlines between the
\* bytes gives the matrix and the list of the string without whitespace.
C15_WhitespaceStripped ==
    (Shown /\ rev = "docs" /\ step4Data # <<>>) =>
        LET pure == SelectSeq(step4Data.MaskedCodewordBinary, NotWhitespace)
            out == renderStep5(rev, positions, pure)
        IN /\ qrMatrix = out.qrMatrix
           /\ blackDataModules = out.blackDataModules

\* the space after the first byte reaches generateFinalQrMatrix: the ninth
\* data position holds parseInt(" "), and the "1" of bit 9 lands on position 10
C15_Witness ==
    /\ Shown /\ rev = "docs"
    /\ step4Data # <<>>
    /\ step4Data.MaskedCodewordBinary = JoinGroups(OneHot(208, 9), " ")
    /\ step5Input[9] = " "
    /\ qrMatrix[positions[9].r][positions[9].c] = NaN
    /\ blackDataModules = <<10>>

\* the statement of C15 for the revision of src/unnamed/part_000
C15_WhitespaceStrippedPart000 ==
    (Shown /\ rev = "part000" /\ step4Data # <<>>) =>
        LET pure == SelectSeq(step4Data.MaskedCodewordBinary, NotWhitespace)
            out == renderStep5(rev, positions, pure)
        IN /\ qrMatrix = out.qrMatrix
           /\ blackDataModules = out.blackDataModules

\* in the revision of src/unnamed/part_000 form feeds and no-break spaces
\* between the bytes are stripped as well: 208 digits reach renderStep5
C15_Part000StripsFormFeed ==
    /\ Shown /\ rev = "part000"
    /\ step4Data # <<>>
    /\ step4Data.MaskedCodewordBinary = JoinGroups(OneHot(208, 9), "\f")
    /\ Len(step4Data.MaskedCodewordBinary) = 233
    /\ step5Input = OneHot(208, 9)
    /\ blackDataModules = <<9>>

C15_Part000StripsNoBreakSpace ==
    /\ Shown /\ rev = "part000"
    /\ step4Data # <<>>
    /\ step4Data.MaskedCodewordBinary = JoinGroups(OneHot(208, 9), "U+00A0")
    /\ step5Input = OneHot(208, 9)
    /\ blackDataModules = <<9>>

\* the bytes a string of binary digits with optional whitespace stands for
DecodedBytes(str) == bitStreamToBytes(SelectSeq(str, NotWhitespace))

C17_EccOn19Bytes ==
    (stagePc = "eccDone" /\ Len(SelectSeq(stageInput, NotWhitespace)) = 8 * 19) =>
        /\ stageOut.Error = NoError
        /\ Len(stageOut.CodewordBytes) = 26
        /\ SubSeq(stageOut.CodewordBytes, 1, 19) = DecodedBytes(stageInput)
        /\ SubSeq(stageOut.CodewordBytes, 20, 26) = stageOut.RemainderPoly
        /\ Len(stageOut.RemainderPoly) = 7

\* C16: masking is self-inverse: on every 26-byte input the mask stage gives
\* 26 bytes, and the mask stage applied to that output gives the input back.
C16_MaskSelfInverse ==
    (stagePc \in {"masked", "remasked"} /\ Len(DecodedBytes(stageInput)) = 26) =>
        /\ stageOut.Error = NoError
        /\ Len(stageOut.MaskedCodeword) = 26
        /\ stagePc = "remasked" =>
              /\ stageOut2.Error = NoError
              /\ Len(stageOut2.MaskedCodeword) = 26
              /\ stageOut2.MaskedCodeword = DecodedBytes(stageInput)

\* 26 bytes 5A with newlines between them: masked to C3 and 3C bytes, and back
C16_Witness ==
    /\ stagePc = "remasked"
    /\ stageInput = JoinGroups([i \in 1..208 |-> IF i % 8 \in {2, 4, 5, 7} THEN "1" ELSE "0"], "\n")
    /\ stageOut.MaskedCodeword[1] = \hC3
    /\ stageOut.MaskedCodeword[4] = \h3C
    /\ stageOut.MaskedCodeword[16] = \hCC
    /\ stageOut2.MaskedCodeword = [i \in 1..26 |-> \h5A]

\* the mask stage on the all-zero codeword gives the mask constant
C16_MaskOfZero ==
    (stagePc = "masked" /\ DecodedBytes(stageInput) = [i \in 1..26 |-> 0]) =>
        stageOut.MaskedCodeword = MaskPattern

\* C18: after initGF, expTable[logTable[v]] = v for every v in 1..255,
\* logTable[v] lies in 0..254, and expTable[255] = 1.
C18_ExpOfLog ==
    (gfPc = "done" /\ gfA # 0) =>
        /\ logTable[gfA] \in 0..254
        /\ expTable[logTable[gfA]] = gfA
        /\ expTable[255] = 1

\* 29 = 0x1D is the eighth power of 2 (x^8 reduced by 0x11D), 142 the last
\* one (2 * 142 = 0x11C, reduced to 1)
C18_Witness ==
    /\ gfPc = "done"
    /\ gfA = 29
    /\ logTable[29] = 8
    /\ expTable[8] = 29
    /\ logTable[142] = 254
    /\ expTable[254] = 142
    /\ logTable[1] = 0
    /\ expTable[255] = 1

\* C19: for every a in 0..255, gfMul(a, 1) = a and gfMul(1, a) = a, and
\* gfMul(a, 0) = 0 and gfMul(0, a) = 0.
C19_GfMulOneAndZero ==
    gfPc = "done" =>
        /\ gfB = 1 => gfProduct = gfA
        /\ gfA = 1 => gfProduct = gfB
        /\ gfB = 0 => gfProduct = 0
        /\ gfA = 0 => gfProduct = 0

\* the four cases on 255, and a product of two other factors: 2 * 142 = 1
C19_Witness ==
    /\ gfPc = "done"
    /\ gfA = 0 /\ gfB = 255 /\ gfProduct = 0
    /\ gfMul(255, 0) = 0
    /\ gfMul(255, 1) = 255
    /\ gfMul(1, 255) = 255
    /\ gfMul(2, 142) = 1

\* the terminated stream is the mode indicator, the count, the fields and
\* the whole terminator 0000, in at most 152 bits
TerminatorInFull ==
    LET im == data.Intermediate
        t == im.TerminatedBinary
    IN /\ t = im.ModeIndicator \o im.CharCountIndicator \o im.ConcatenatedBinary
                \o <<"0", "0", "0", "0">>
       /\ Len(t) <= 152

\* C20: for every accepted input of n = 1..9 characters the stream with the
\* terminator has 16 + 13n <= 152 bits, so the terminator 0000 is always
\* appended in full, never dropped or truncated.
C20_TerminatorAlwaysFits ==
    (Encoded /\ Len(kanjiInput) >= 1 /\ Len(kanjiInput) <= 9) =>
        /\ Len(data.Intermediate.TerminatedBinary) = 16 + 13 * Len(kanjiInput)
        /\ 16 + 13 * Len(kanjiInput) <= 152
        /\ TerminatorInFull

\* a supported character followed by a single-byte one is accepted with
\* n = 2: the terminator is there, the stream has 29 bits and not 42
C20_Witness ==
    /\ Encoded
    /\ kanjiInput = <<\h4E9C, \h41>>
    /\ TerminatorInFull
    /\ Len(data.Intermediate.TerminatedBinary) = 29
    /\ 16 + 13 * Len(kanjiInput) = 42

\* on every accepted input the terminator is appended in full within 152 bits
C20_TerminatorPresent == Encoded => TerminatorInFull

\* the statement of C20 on the inputs whose characters are all supported
C20_TerminatorAlwaysFitsOfSupported ==
    (Encoded /\ AllSupported) => C20_TerminatorAlwaysFits

\* nine supported characters: 133 bits with the terminator
C20_NineCharacters ==
    /\ Encoded /\ AllSupported
    /\ Len(kanjiInput) = 9
    /\ Len(data.Intermediate.TerminatedBinary) = 133

\* the response a request gets when it is the only one the server handles
AloneResponse(method, input) ==
    [tmpl |-> "index.html",
     data |-> IF method = "POST" THEN processKanjiHandler(input).data ELSE NewTemplateData]

\* C21: in the HTTP server the tables are completely built by initGF before
\* any request is served, no handler writes to them or to tmpl, and under
\* any interleaving each request gets the result it gets running alone.
C21_RequestsIndependent ==
    /\ (\E i \in 1..NumRequests : requests[i].pc # "idle") => serverPc = "serving"
    /\ serverPc \in {"main", "serving"} =>
          /\ pkgTmpl = "index.html"
          /\ pkgExpTable = initGF.exp
          /\ pkgLogTable = initGF.log
    /\ \A i \in 1..NumRequests :
          /\ requests[i].read # <<>> =>
                requests[i].read = [exp |-> initGF.exp, log |-> initGF.log]
          /\ requests[i].pc = "done" =>
                requests[i].response = AloneResponse(requests[i].method, requests[i].input)

\* two POSTs in flight: the first has its response, with the codeword of
\* U+4E9C, while the second is between processKanjiHandler and renderTemplate
C21_Witness ==
    /\ serverPc = "serving"
    /\ requests[1].pc = "done"
    /\ requests[1].input = <<\h4E9C>>
    /\ requests[1].response.data.Intermediate.CodewordHex # <<>>
    /\ requests[1].response.data.Error = NoError
    /\ requests[2].pc = "processed"
    /\ requests[2].input = <<\h70B9, \h8317>>
    /\ requests[2].read.exp[255] = 1
    /\ requests[2].data.Error = NoError

\* the matrix with the static patterns and the format information and no data
ReservedMatrix(revision) ==
    placeFormatInformation(revision, placeStaticPatterns(emptyMatrix), formatInfo)

\* C22: data placement never changes a reserved cell: every cell written by
\* placeStaticPatterns or placeFormatInformation holds, in the matrix
\* generateFinalQrMatrix returns, the same value for every input string, and
\* no data position is such a cell.
C22_ReservedCellsKept ==
    Shown =>
        LET reserved == ReservedMatrix(rev)
        IN /\ \A r \in Cells, c \in Cells :
                 matrix[r][c] # Null =>
                    /\ reserved[r][c] # Null
                    /\ qrMatrix[r][c] = reserved[r][c]
           /\ \A k \in 1..Len(positions) :
                 /\ matrix[positions[k].r][positions[k].c] = Null
                 /\ reserved[positions[k].r][positions[k].c] = Null

\* all data bits 1: the white ring of the top-right finder, the white timing
\* cell (6, 9) and the first bit of the second format copy are as without data
C22_Witness ==
    /\ Shown /\ rev = "docs"
    /\ step5Input = [i \in 1..208 |-> "1"]
    /\ qrMatrix[20][20] = 1 /\ qrMatrix[9][20] = 1
    /\ qrMatrix[1][19] = 0
    /\ qrMatrix[6][9] = 0
    /\ qrMatrix[20][8] = 0
    /\ qrMatrix[13][8] = 1

\* the colour of the cell at offset (dr, dc) of a 7 x 7 finder: the outer
\* ring and the 3 x 3 centre are black
FinderCell(dr, dc) ==
    IF dr \in {0, 6} \/ dc \in {0, 6} THEN 1
    ELSE IF dr \in 2..4 /\ dc \in 2..4 THEN 1
    ELSE 0

\* the reference layout of the function patterns of a Version-1 symbol
StaticReference(r, c) ==
    IF r \in 0..6 /\ c \in 0..6 THEN FinderCell(r, c)
    ELSE IF r \in 0..6 /\ c \in 14..20 THEN FinderCell(r, c - 14)
    ELSE IF r \in 14..20 /\ c \in 0..6 THEN FinderCell(r - 14, c)
    ELSE IF (r = 7 /\ c \in 0..7) \/ (c = 7 /\ r \in 0..7) THEN 0
    ELSE IF (r = 7 /\ c \in 13..20) \/ (c = 13 /\ r \in 0..7) THEN 0
    ELSE IF (r = 13 /\ c \in 0..7) \/ (c = 7 /\ r \in 13..20) THEN 0
    ELSE IF (r = 6 /\ c \in 8..12) THEN (IF c % 2 = 0 THEN 1 ELSE 0)
    ELSE IF (c = 6 /\ r \in 8..12) THEN (IF r % 2 = 0 THEN 1 ELSE 0)
    ELSE IF r = 13 /\ c = 8 THEN 1
    ELSE Null

\* C23: placeStaticPatterns produces the reference Version-1 layout: three
\* finders with their separators, the timing cells (6, i) and (i, 6) for i in
\* 8..12 black when i is even, the black cell (13, 8), and no other cell written.
C23_StaticLayout ==
    posPc = "static" =>
        \A r \in Cells, c \in Cells : matrix[r][c] = StaticReference(r, c)

C23_Witness ==
    /\ posPc = "static"
    /\ matrix[0][0] = 1 /\ matrix[1][1] = 0 /\ matrix[3][3] = 1 /\ matrix[7][7] = 0
    /\ matrix[0][14] = 1 /\ matrix[0][13] = 0 /\ matrix[4][18] = 1
    /\ matrix[14][0] = 1 /\ matrix[13][0] = 0 /\ matrix[19][5] = 0
    /\ matrix[6][8] = 1 /\ matrix[6][9] = 0 /\ matrix[12][6] = 1 /\ matrix[11][6] = 0
    /\ matrix[13][8] = 1
    /\ matrix[8][8] = Null /\ matrix[20][20] = Null /\ matrix[8][0] = Null

\* C24: on every successful encode of an n-character input, the number of
\* compression records and the number of 13-bit fields in ConcatenatedBinary
\* both equal n, the value in CharCountIndicator, and the k-th record is the
\* record of the k-th input character.
C24_RecordsMatchCharacters ==
    Encoded =>
        LET n == Len(kanjiInput)
            im == data.Intermediate
        IN /\ BitsValue(im.CharCountIndicator) = n
           /\ Len(data.Results) = n
           /\ Len(im.ConcatenatedBinary) = 13 * n
           /\ \A k \in 1..n :
                 /\ k <= Len(data.Results)
                 /\ data.Results[k].Kanji = kanjiInput[k]
                 /\ Len(EncodeRune(kanjiInput[k])) = 2
                 /\ data.Results[k].Binary13Bit = ExpectedField(kanjiInput[k])
                 /\ SubSeq(im.ConcatenatedBinary, 13 * k - 12, 13 * k)
                       = data.Results[k].Binary13Bit

\* a supported character followed by a single-byte one: the count says 2,
\* there is one record and one field
C24_Witness ==
    /\ Encoded
    /\ kanjiInput = <<\h4E9C, \h41>>
    /\ BitsValue(data.Intermediate.CharCountIndicator) = 2
    /\ Len(data.Results) = 1
    /\ data.Results[1].Kanji = \h4E9C
    /\ Len(data.Intermediate.ConcatenatedBinary) = 13

\* the statement of C24 on the inputs whose characters are all supported
C24_RecordsMatchOfSupported ==
    (Encoded /\ AllSupported) => C24_RecordsMatchCharacters

\* C25: the two revisions of polyDiv (src/main.go, src/docs/index.html) are
\* equivalent: for every 26-coefficient dividend and the degree-7 generator
\* they return the same 7 remainder coefficients.
C25_PolyDivRevisionsAgree ==
    stagePc = "docsDone" =>
        /\ Len(stageInput) = 26
        /\ Len(rsRemainder) = 7
        /\ Len(stageOut) = 7
        /\ rsRemainder = stageOut

\* the block 01 00 ... 00 (the constant 1 shifted by x^7): the revision of
\* index.html returns the low coefficients of the generator, as x^7 mod g is;
\* the revision of main.go returns 1 seven times
C25_Witness ==
    /\ stagePc = "docsDone"
    /\ rsData = [i \in 1..19 |-> IF i = 1 THEN 1 ELSE 0]
    /\ stageOut = SubSeq(getGeneratorPolynomial(7), 1, 7)
    /\ stageOut = RefRemainder(rsData)
    /\ rsRemainder = <<1, 1, 1, 1, 1, 1, 1>>

\* the revision of src/docs/index.html is the remainder of the long division
C25_DocsIsRemainder ==
    stagePc = "docsDone" => stageOut = RefRemainder(rsData)

\* the other revision of the matrix builder
OtherRevision(revision) == IF revision = "docs" THEN "part000" ELSE "docs"

\* C26: the two revisions of getQrDataPositions (src/docs/main.js and
\* src/unnamed/part_000) return the same sequence of (number, row, column).
C26_PositionRevisionsAgree ==
    posPc = "done" => positions = getQrDataPositions(OtherRevision(rev))

\* docs goes right-left within a row and has 209 positions; part_000 goes up
\* the right column first and has 208
C26_Witness ==
    /\ posPc = "done" /\ rev = "docs"
    /\ Len(positions) = 209
    /\ positions[2] = [num |-> 2, r |-> 20, c |-> 19]
    /\ Len(getQrDataPositions("part000")) = 208
    /\ getQrDataPositions("part000")[2] = [num |-> 2, r |-> 19, c |-> 20]

\* the function as a whole returns what the scan has pushed, cell by cell
C26_WholeIsStepwise ==
    posPc = "done" => positions = getQrDataPositions(rev)

RECURSIVE AlphaPower(_)
\* a^j for a = 2, by gfMul
AlphaPower(j) == IF j = 0 THEN 1 ELSE gfMul(2, AlphaPower(j - 1))

\* p(x) * (x + root) over GF(256)
TimesRoot(p, root) ==
    [k \in 1..(Len(p) + 1) |->
        bitXor(IF k > 1 THEN p[k - 1] ELSE 0,
               IF k <= Len(p) THEN gfMul(p[k], root) ELSE 0)]

RECURSIVE RootProduct(_)
\* (x + a^0)(x + a^1)...(x + a^(n-1))
RootProduct(n) == IF n = 0 THEN <<1>> ELSE TimesRoot(RootProduct(n - 1), AlphaPower(n - 1))

\* C27: getGeneratorPolynomial(7), with leading coefficient 1 and the
\* coefficient of x^(6-i) equal to expTable[e_i] for e = 87, 229, 146, 149,
\* 238, 102, 21, is the product (x + a^0)(x + a^1)...(x + a^6) over GF(256).
C27_GeneratorIsRootProduct ==
    rsPc = "done" =>
        LET g == getGeneratorPolynomial(7)
            e == <<87, 229, 146, 149, 238, 102, 21>>
        IN /\ Len(g) = 8
           /\ g[8] = 1
           /\ \A i \in 0..6 : g[6 - i + 1] = expTable[e[i + 1]]
           /\ g = RootProduct(7)

C27_Witness ==
    /\ rsPc = "done"
    /\ getGeneratorPolynomial(7) = <<117, 68, 11, 164, 154, 122, 127, 1>>
    /\ RootProduct(2) = <<2, 3, 1>>
    /\ RootProduct(7)[1] = 117 /\ RootProduct(7)[7] = 127
    /\ AlphaPower(6) = 64

RECURSIVE Pow2(_)
Pow2(i) == IF i = 0 THEN 1 ELSE 2 * Pow2(i - 1)

\* (x >> i) & 1
BitAt(x, i) == (x \div Pow2(i)) % 2

RECURSIVE BchReduce(_, _)
\* the loop documented in generateFormatInformationBits, from i downward:
\* if ((paddedData >> (i + 10)) & 1) paddedData ^= (0x537 << i)
BchReduce(paddedData, i) ==
    IF i < 0 THEN paddedData
    ELSE BchReduce(IF BitAt(paddedData, i + 10) = 1
                   THEN bitXor(paddedData, \h537 * Pow2(i))
                   ELSE paddedData,
                   i - 1)

\* ((data << 10) | bchCode) ^ 0x5412, most significant of 15 bits first; the
\* remainder is below 2^10, so the OR is a sum
DocumentedFormatBits(fmtData) ==
    LET bchCode == BchReduce(fmtData * 1024, 4)
        finalFormat == bitXor(fmtData * 1024 + bchCode, \h5412)
    IN [k \in 1..15 |-> BitAt(finalFormat, 15 - k)]

\* C28: the literal 15-bit string of generateFormatInformationBits(0, 3)
\* equals the computation documented in the function for level L (01) and
\* mask pattern 3: data = 01011, ((data << 10) | BCH remainder) XOR 0x5412.
C28_FormatLiteralIsComputed ==
    (rev = "part000" /\ posPc \in {"scan", "done"}) =>
        /\ BchReduce(11 * 1024, 4) < 1024
        /\ generateFormatInformationBits = DocumentedFormatBits(11)
        /\ \A k \in 1..15 :
              LET p == formatPositions1("part000")[k]
              IN matrix[p[1]][p[2]] = DocumentedFormatBits(11)[k]

\* the literal 111011110010100 is on the first coordinate list; the
\* documented computation gives 111100010011101
C28_Witness ==
    /\ rev = "part000" /\ posPc = "scan"
    /\ generateFormatInformationBits = <<1,1,1,0,1,1,1,1,0,0,1,0,1,0,0>>
    /\ matrix[8][3] = 0 /\ matrix[8][4] = 1
    /\ DocumentedFormatBits(11) = <<1,1,1,1,0,0,0,1,0,0,1,1,1,0,1>>

\* a double-byte code: lead byte 0x81..0x9F or 0xE0..0xEB, trail 0x40..0xFC
ValidDoubleByte(b1, b2) ==
    /\ b1 \in (\h81..\h9F) \cup (\hE0..\hEB)
    /\ b2 \in \h40..\hFC

\* the code passes the range check of compressKanjiString
PassesRangeCheck(b1, b2) ==
    InRange1(shiftJISCodeOf(b1, b2)) \/ InRange2(shiftJISCodeOf(b1, b2))

\* the 13-bit value compressKanjiString computes for an accepted code
CompressedOf(b1, b2) ==
    LET code == shiftJISCodeOf(b1, b2)
    IN compressedValue(U16(code - (IF InRange1(code) THEN \h8140 ELSE \hC140)))

\* the code a 13-bit value stands for: the quotient by 0xC0 is the upper
\* byte of the subtracted code, below 0x1F for the first range
Decompress(v) ==
    LET sub == (v \div \hC0) * 256 + (v % \hC0)
    IN IF v \div \hC0 < \h1F THEN sub + \h8140 ELSE sub + \hC140

\* C29: compression is injective on valid double-byte codes: two distinct
\* codes with lead byte in 0x81..0x9F or 0xE0..0xEB and trail byte in
\* 0x40..0xFC that pass the range check have different 13-bit values.  The
\* value determines the code (Decompress), and no other code with the same
\* or a neighbouring lead byte has the value.
C29_CompressionInjective ==
    (sjisPc = "done" /\ ValidDoubleByte(sjisCode[1], sjisCode[2])
                     /\ PassesRangeCheck(sjisCode[1], sjisCode[2])) =>
        LET v == BitsValue(sjisOut.result.Binary13Bit)
        IN /\ sjisOut.err = NoError
           /\ v = CompressedOf(sjisCode[1], sjisCode[2])
           /\ Decompress(v) = shiftJISCodeOf(sjisCode[1], sjisCode[2])
           /\ \A b1 \in {sjisCode[1] - 1, sjisCode[1], sjisCode[1] + 1}, b2 \in \h40..\hFC :
                 (/\ ValidDoubleByte(b1, b2)
                  /\ PassesRangeCheck(b1, b2)
                  /\ <<b1, b2>> # sjisCode) => CompressedOf(b1, b2) # v

\* 9FFC, the last code of the first range, has the value 5 948; E040, the
\* first code of the second range, has the next one
C29_Witness ==
    /\ sjisPc = "done"
    /\ sjisCode = <<\h9F, \hFC>>
    /\ BitsValue(sjisOut.result.Binary13Bit) = 5948
    /\ CompressedOf(\hE0, \h40) = 5952
    /\ Decompress(5948) = \h9FFC

\* ---------------------------------------------------------------------
\* The page controller of src/docs/main.js over the document of
\* src/docs/index.html.  The three wasm entry points are not part of the
\* controller: each submission receives either a result or an error.

MaxSubmissions == 5

ResultSections ==
    {"step1-and-2-section", "step3-section", "step4-section", "step5-section"}

FormSections == {"ecc-form-section", "mask-form-section"}

Elements ==
    {"encodeForm", "error-container", "results-container"}
        \cup ResultSections \cup FormSections

\* index.html: the form and the sections carry style="display:none", the
\* two containers get display: none from their classes.
InitialDisplay == [e \in Elements |-> "none"]

\* An element of results-container shows only while the container does.
Visible(e) ==
    /\ display[e] # "none"
    /\ e \in (ResultSections \cup FormSections)
           => display["results-container"] # "none"

displayError(d, error) ==
    [d EXCEPT !["error-container"] = IF error THEN "block" ELSE "none"]

renderStep1And2(d, error) ==
    LET d1 == displayError(d, error)
    IN IF error
       THEN [d1 EXCEPT !["results-container"] = "none"]
       ELSE [d1 EXCEPT !["results-container"] = "block",
                       !["step1-and-2-section"] = "block",
                       !["ecc-form-section"] = "block",
                       !["step3-section"] = "none",
                       !["mask-form-section"] = "none",
                       !["step4-section"] = "none"]

renderStep3(d, error) ==
    LET d1 == displayError(d, error)
        d2 == [d1 EXCEPT !["step3-section"] = IF error THEN "none" ELSE "block"]
    IN IF error
       THEN d2
       ELSE [d2 EXCEPT !["mask-form-section"] = "block",
                       !["step4-section"] = "none"]

renderStep4(d, error) ==
    LET d1 == displayError(d, error)
        d2 == [d1 EXCEPT !["step4-section"] = IF error THEN "none" ELSE "block"]
    IN IF error
       THEN d2
       ELSE [d2 EXCEPT !["step5-section"] = "block"]

\* The sections a render function writes a result into.
written(fn, error) ==
    IF error THEN {}
    ELSE CASE fn = "renderStep1And2" -> {"step1-and-2-section"}
           [] fn = "renderStep3" -> {"step3-section"}
           [] fn = "renderStep4" -> {"step4-section", "step5-section"}

InitPage ==
    /\ wasm = "loading"
    /\ display = InitialDisplay
    /\ sectionPass = [s \in ResultSections |-> 0]
    /\ pass = 0
    /\ lastRender = <<>>
    /\ IdleHttp /\ IdleRs /\ IdleSjis /\ IdlePos /\ IdleRest /\ IdleServer

Rendered(fn, error, d) ==
    /\ pass < MaxSubmissions
    /\ display' = d
    /\ pass' = pass + 1
    /\ sectionPass' = [s \in ResultSections |->
                          IF s \in written(fn, error) THEN pass + 1
                          ELSE sectionPass[s]]
    /\ lastRender' = [fn |-> fn, error |-> error]
    /\ UNCHANGED <<wasm, httpVars, rsVars, sjisVars, posVars, gfVars,
                   stageVars, renderVars, serverVars>>

\* initWasm: the encode form appears once the module runs.
InitWasm ==
    /\ wasm = "loading"
    /\ \E ok \in BOOLEAN :
          /\ wasm' = IF ok THEN "ready" ELSE "failed"
          /\ display' = IF ok THEN [display EXCEPT !["encodeForm"] = "flex"]
                        ELSE display
    /\ UNCHANGED <<sectionPass, pass, lastRender, httpVars, rsVars, sjisVars,
                   posVars, gfVars, stageVars, renderVars, serverVars>>

\* submit of encodeForm: generateDataCodewords, renderStep1And2
EncodeSubmit ==
    /\ Visible("encodeForm")
    /\ \E error \in BOOLEAN :
          Rendered("renderStep1And2", error, renderStep1And2(display, error))

\* submit of eccForm: applyEcc, renderStep3
EccSubmit ==
    /\ Visible("ecc-form-section")
    /\ \E error \in BOOLEAN :
          Rendered("renderStep3", error, renderStep3(display, error))

\* submit of maskForm: applyMask, renderStep4
MaskSubmit ==
    /\ Visible("mask-form-section")
    /\ \E error \in BOOLEAN :
          Rendered("renderStep4", error, renderStep4(display, error))

NextPage == InitWasm \/ EncodeSubmit \/ EccSubmit \/ MaskSubmit

SpecPage == InitPage /\ [][NextPage]_vars

\* The result sections of the steps after the one a render function shows.
LaterSections(fn) ==
    CASE fn = "renderStep1And2" ->
             {"step3-section", "step4-section", "step5-section"}
      [] fn = "renderStep3" -> {"step4-section", "step5-section"}
      [] fn = "renderStep4" -> {"step5-section"}

\* C30: once steps 1-2 or step 3 have been rendered again, or step 4 has
\* returned an error, no result section of a later step is visible, the
\* step-5 QR section included.
C30_NoStaleLaterStep ==
    (/\ lastRender # <<>>
     /\ \/ lastRender.fn \in {"renderStep1And2", "renderStep3"}
        \/ lastRender.error)
        => \A s \in LaterSections(lastRender.fn) : ~Visible(s)

\* A new encode pass has succeeded and the QR section still shows the
\* symbol drawn for the previous one.
C30_Witness ==
    /\ lastRender # <<>>
    /\ lastRender.fn = "renderStep1And2"
    /\ ~lastRender.error
    /\ sectionPass["step1-and-2-section"] = pass
    /\ Visible("step5-section")
    /\ sectionPass["step5-section"] \in 1..(pass - 1)
    /\ ~Visible("step3-section") /\ ~Visible("step4-section")

\* What the controller does keep: a fresh encode pass hides the step-3 and
\* step-4 results, a fresh step 3 hides the step-4 result, and a failed
\* encode pass hides every section.
C30_HiddenSections ==
    lastRender # <<>> =>
        /\ (lastRender.fn = "renderStep1And2")
               => \A s \in {"step3-section", "step4-section"} : ~Visible(s)
        /\ (lastRender.fn = "renderStep1And2" /\ lastRender.error)
               => \A s \in ResultSections \cup FormSections : ~Visible(s)
        /\ (lastRender.fn = "renderStep3" /\ ~lastRender.error)
               => ~Visible("step4-section")
        /\ (lastRender.fn = "renderStep4" /\ lastRender.error)
               => ~Visible("step4-section")


====
